---- MODULE Spec2Model ----
(***************************************************************************)
(* pcap2socks: the user-space TCP engine of src/src/lib.rs.                *)
(*                                                                         *)
(* One flow key (src, dst) is modelled.  The Forwarder owns the flow's     *)
(* TcpTxState, the Redirector owns its TcpRxState and StreamWorker.        *)
(* Payload bytes are anonymous: queues and caches are modelled by their    *)
(* lengths and sequence numbers.  Integer widths are scaled down (u32 to   *)
(* 6 bits, u16 to 3 bits, usize to 10 bits, u64 to 8 bits) and keep the    *)
(* shape of the code's arithmetic: U32_MAX is the largest u32, and so on.  *)
(* Time is not measured: what has timed out, and the time a timer shows    *)
(* when it is read, are inputs of the step that reads it.                  *)
(*                                                                         *)
(* cache::Queue, cache::Window and socks::StreamWorker are not part of     *)
(* the source file; they are modelled from the specification text.         *)
(***************************************************************************)
EXTENDS Integers, Sequences, FiniteSets, TLC

\* ---------------------------------------------------------------- widths
\* u32::MAX, scaled to 6 bits
U32_MAX == 63
\* u16::MAX, scaled to 3 bits
U16_MAX == 7
\* usize::MAX, scaled to 10 bits
USIZE_MAX == 1023
\* const MAX_U32_WINDOW_SIZE, scaled (16 MiB of 4 GiB)
MAX_U32_WINDOW_SIZE == 16
\* const RECV_WINDOW: u16 = u16::MAX
RECV_WINDOW == U16_MAX
\* const MAX_RECV_WSCALE
MAX_RECV_WSCALE == 1
\* Ipv4::minimum_len() + Tcp::minimum_len()
HEADER_LEN == 40
\* Forwarder::new(mtu): the MTU of the local interface
LOCAL_MTU == 42
\* u64::MAX, scaled to 8 bits
U64_MAX == 255
\* const INITIAL_RTO, MIN_RTO and MAX_RTO in milliseconds, scaled: two
\* doublings take the initial RTO to the maximum
INITIAL_RTO == 4
MIN_RTO == 4
MAX_RTO == 16

\* ---------------------------------------------------------------- bounds
\* most bytes the send queue holds
MaxQueue == 3
\* most bytes one forward() call appends
MaxFwdLen == 2
\* most payload bytes forwarded on one flow
MaxSendBytes == 3
\* most cached bytes a tick finds timed out where timeouts are rare
MaxLate == 1
\* most payload bytes forwarded on a flow whose window stays open
MaxDrainBytes == 4
\* most payload bytes forwarded on a flow whose path MTU shrinks
MaxMtuBytes == 1
\* most payload bytes of one inbound segment
MaxSegLen == 1
\* an injection error hits the 1st .. MaxInjAt-th frame of a handler
MaxInjAt == 1
\* most payload bytes the peer gets delivered on one flow
MaxPeerBytes == 2
\* largest hole, in bytes, the peer leaves before a segment near the base
MaxGap == 1
\* most duplicate ACKs in a row the peer sends
MaxDup == 3
\* most payload bytes forwarded on a flow whose ACKs repeat
MaxDupBytes == 3
\* most payload bytes forwarded on a flow whose round trip times vary
MaxRttBytes == 2
\* longest range, in bytes, handed to disjoint_u32_range
MaxRange == 3
\* longest payload, in bytes, handed to send_udp
MaxUdpLen == 40
\* most datagrams forwarded to one source host
MaxDatagrams == 1

\* ------------------------------------------------------------- inputs
\* initial sequence numbers drawn by rng.gen::<u32>()
IsnValues == {U32_MAX - 3}
\* sequence numbers of the peer's SYN
PeerIsnValues == {U32_MAX - 2}
\* window scale option of the peer's SYN (Option<u8>)
SynWscaleValues == {{}, {1}}
\* window field of the peer's SYN (u16)
SynWindowValues == {U16_MAX}
\* window field of the peer's later segments (u16)
PeerWindowValues == {0, 1, U16_MAX}
\* sequence numbers of a SYN, up to the last one a u32 holds
SynSeqValues == {0, U32_MAX - 2, U32_MAX}
\* window scales of a SYN: none, and up to one more than MAX_RECV_WSCALE
SynShiftValues == {{}} \cup {{w} : w \in 0 .. MAX_RECV_WSCALE + 1}
\* local MTU values of Forwarder::new: from the two headers up to the
\* largest IPv4 datagram above them
LocalMtuValues == HEADER_LEN .. HEADER_LEN + U16_MAX
\* MSS option of the peer's SYN (Option<u16>)
SynMssValues == {{}}
\* times, in milliseconds, the timers show when an acknowledgement
\* arrives (instant.elapsed())
RttValues == {0, 9, U64_MAX}
\* MTU values an ICMP "fragmentation needed" message reports
IcmpMtuValues == {HEADER_LEN - 1, HEADER_LEN, HEADER_LEN + 1}

Min(a, b) == IF a < b THEN a ELSE b
Max(a, b) == IF a > b THEN a ELSE b
Shl(x, s) == x * (2 ^ s)
Shr(x, s) == x \div (2 ^ s)
\* Option<T> is the empty set or a singleton
UnwrapOr(opt, d) == IF opt = {} THEN d ELSE CHOOSE v \in opt : TRUE

\* ------------------------------------------------- sequence arithmetic
\* x.checked_add(n).unwrap_or_else(|| n - (u32::MAX - x))
WrapAdd(x, n) == IF x + n <= U32_MAX THEN x + n ELSE n - (U32_MAX - x)
\* a.checked_sub(b).unwrap_or_else(|| a + (u32::MAX - b))
WrapSub(a, b) == IF a >= b THEN a - b ELSE a + (U32_MAX - b)
\* x.checked_add(1).unwrap_or(0)
WrapInc(x) == IF x + 1 <= U32_MAX THEN x + 1 ELSE 0

\* modular arithmetic of the cache primitives (specification 4.1)
SeqAdd(x, n) == (x + n) % (U32_MAX + 1)
SeqSub(a, b) == (a - b + (U32_MAX + 1)) % (U32_MAX + 1)
SeqAhead(a, b) == SeqSub(a, b) <= MAX_U32_WINDOW_SIZE

\* ------------------------------------------------------- cache::Queue
\* Queue::with_capacity(capacity, sequence)
\* Queue::with_capacity(capacity, sequence).  segs lists the appended
\* stretches from the base on: len bytes, retrans set once the stretch was
\* re-timestamped by get_timed_out_and_update.  The timestamps are not
\* modelled: what has timed out and how long an acknowledgement took are
\* inputs.  resent records that bytes of the stretch went onto the wire
\* again, by whatever path; the Queue does not read it.
QueueNew(capacity, sequence) ==
    [sequence |-> sequence, len |-> 0, capacity |-> capacity, segs |-> << >>]
QueueRecvNext(q) == SeqAdd(q.sequence, q.len)
QueueCanAppend(q, n) == q.len + n <= q.capacity
\* append(bytes, rto): one stretch, stamped now
QueueAppend(q, n) ==
    [q EXCEPT !.len = @ + n,
              !.segs = IF n = 0 THEN @
                       ELSE Append(@, [len |-> n, retrans |-> FALSE,
                                       resent |-> FALSE])]
\* the offset from the base at which stretch i ends
RECURSIVE SegsEnd(_, _)
SegsEnd(segs, i) == IF i = 0 THEN 0 ELSE SegsEnd(segs, i - 1) + segs[i].len
\* the stretches left once the first k bytes are dropped
RECURSIVE SegsDrop(_, _)
SegsDrop(segs, k) ==
    IF k = 0 \/ segs = << >> THEN segs
    ELSE IF Head(segs).len <= k THEN SegsDrop(Tail(segs), k - Head(segs).len)
         ELSE <<[Head(segs) EXCEPT !.len = @ - k]>> \o Tail(segs)
\* the stretches that hold a byte of [off, off + n)
SegsIn(segs, off, n) ==
    {i \in DOMAIN segs : SegsEnd(segs, i - 1) < off + n /\ SegsEnd(segs, i) > off}
\* invalidate_to(seq): drop every byte below seq; the base moves to seq
QueueInvalidateTo(q, seq) ==
    IF SeqAhead(seq, q.sequence)
    THEN [q EXCEPT !.sequence = seq,
                   !.len = @ - Min(@, SeqSub(seq, q.sequence)),
                   !.segs = SegsDrop(@, Min(q.len, SeqSub(seq, q.sequence)))]
    ELSE q
\* ... and the stretches whose end seq falls on
QueueInvalidated(q, seq) ==
    IF SeqAhead(seq, q.sequence)
    THEN {i \in DOMAIN q.segs : SegsEnd(q.segs, i) = SeqSub(seq, q.sequence)}
    ELSE {}
\* ... and whether it returns an RTT: seq falls on the end of a stretch
\* that was never retransmitted
QueueInvalidateRtt(q, seq) ==
    \E i \in QueueInvalidated(q, seq) : ~q.segs[i].retrans
\* get_timed_out_and_update(rto), the first n bytes having timed out:
\* their stretches are stamped again
QueueGetTimedOutAndUpdate(q, n) ==
    [q EXCEPT !.segs = [i \in DOMAIN @ |->
                          IF i \in SegsIn(q.segs, 0, n)
                          THEN [@[i] EXCEPT !.retrans = TRUE, !.resent = TRUE]
                          ELSE @[i]]]
\* get_all() and get(seq, len) take &self: the Queue is left as it is,
\* but for the record of what went onto the wire again
QueueGet(q, seq, n) ==
    [q EXCEPT !.segs = [i \in DOMAIN @ |->
                          IF i \in SegsIn(q.segs, SeqSub(seq, q.sequence), n)
                          THEN [@[i] EXCEPT !.resent = TRUE]
                          ELSE @[i]]]
\* get(seq, len) fails when the range is not inside the queue
QueueCanGet(q, seq, n) ==
    /\ SeqAhead(seq, q.sequence)
    /\ SeqSub(seq, q.sequence) + n <= q.len

\* ------------------------------------------------------ cache::Window
\* Window::with_capacity(capacity, sequence): filled holds the offsets,
\* counted from the base, of the bytes stored above the base
WindowNew(capacity, sequence) ==
    [sequence |-> sequence, capacity |-> capacity, filled |-> {}]
\* the offset of seq from the base; segments behind the base are old
WindowIsOld(w, seq) == ~SeqAhead(seq, w.sequence)
WindowFits(w, seq, n) ==
    /\ SeqAhead(seq, w.sequence)
    /\ SeqSub(seq, w.sequence) + n <= w.capacity
\* length of the contiguous run of stored bytes starting at the base
RECURSIVE PrefixLen(_, _)
PrefixLen(filled, k) == IF k \in filled THEN PrefixLen(filled, k + 1) ELSE k
\* append(seq, bytes) on a segment that fits: the window afterwards
WindowAppend(w, seq, n) ==
    LET off == SeqSub(seq, w.sequence)
        all == w.filled \cup {off + i : i \in 0 .. n - 1}
        p   == PrefixLen(all, 0)
    IN  [w EXCEPT !.sequence = SeqAdd(@, p),
                  !.filled = {o - p : o \in {x \in all : x >= p}}]
\* ... and the length of the contiguous prefix it returns (0: None)
WindowAppendPrefix(w, seq, n) ==
    PrefixLen(w.filled \cup {SeqSub(seq, w.sequence) + i : i \in 0 .. n - 1}, 0)
\* remaining(): capacity minus the span from the base to the last byte
WindowRemaining(w) ==
    IF w.filled = {} THEN w.capacity
    ELSE w.capacity - (1 + CHOOSE m \in w.filled : \A o \in w.filled : o <= m)

\* --------------------------------------------------------- TcpTxState
\* TcpTxState::new; the timers cache_syn and cache_fin are modelled by
\* whether they are set
TcpTxStateNew(sequence, acknowledgement, send_window, send_wscale, sack_perm, wscale) ==
    [send_window |-> Shl(send_window, UnwrapOr(send_wscale, 0)),
     send_wscale |-> send_wscale,
     sack_perm |-> sack_perm,
     sequence |-> sequence,
     acknowledgement |-> acknowledgement,
     window |-> RECV_WINDOW,
     cache |-> QueueNew(Shl(RECV_WINDOW, UnwrapOr(wscale, 0)), sequence),
     cache_syn |-> FALSE,
     cache_fin |-> FALSE,
     cache_fin_retrans |-> TRUE,
     queue |-> 0,
     queue_fin |-> FALSE,
     rto |-> INITIAL_RTO,
     srtt |-> {},
     rttvar |-> {}]

add_sequence(st, n) == [st EXCEPT !.sequence = WrapAdd(@, n)]
add_acknowledgement(st, n) == [st EXCEPT !.acknowledgement = WrapAdd(@, n)]
set_window(st, window) == [st EXCEPT !.window = window]
set_send_window(st, window) == [st EXCEPT !.send_window = window]

\* u64 arithmetic: checked_add(..).unwrap_or(u64::MAX) and checked_mul
SatAdd(a, b) == IF a + b <= U64_MAX THEN a + b ELSE U64_MAX
SatMul(a, b) == IF a * b <= U64_MAX THEN a * b ELSE U64_MAX
\* a.checked_sub(b).unwrap_or_else(|| b - a)
AbsDiff(a, b) == IF a >= b THEN a - b ELSE b - a

\* TcpTxState::set_rto
SetRtoNoClamp(st, rto) == [st EXCEPT !.rto = rto]
set_rto(st, rto) == [st EXCEPT !.rto = Min(MAX_RTO, Max(MIN_RTO, rto))]
\* TcpTxState::double_rto
double_rto(st) == set_rto(st, SatMul(st.rto, 2))
\* TcpTxState::update_rto, rtt in milliseconds
update_rto(st, rtt) ==
    LET prev_srtt   == UnwrapOr(st.srtt, 0)
        prev_rttvar == UnwrapOr(st.rttvar, 0)
        rttvar == IF st.srtt = {} THEN rtt \div 2
                  ELSE SatAdd((prev_rttvar \div 8) * 7,
                              AbsDiff(prev_srtt, rtt) \div 4)
        srtt   == IF st.srtt = {} THEN rtt
                  ELSE SatAdd((prev_rttvar \div 8) * 7, rtt \div 8)
    IN  set_rto([st EXCEPT !.srtt = {srtt}, !.rttvar = {rttvar}],
                SatAdd(srtt, Max(1, SatMul(rttvar, 4))))

\* TcpTxState::acknowledge: the SYN is acknowledged by sequence
AcknowledgesSyn(st, sequence) ==
    st.cache_syn /\ WrapSub(sequence, st.sequence) <= MAX_U32_WINDOW_SIZE
\* ... the FIN is acknowledged by sequence, the cache being invalidated
AcknowledgesFin(st, sequence) ==
    /\ WrapSub(sequence, QueueRecvNext(QueueInvalidateTo(st.cache, sequence)))
          <= MAX_U32_WINDOW_SIZE
    /\ st.cache_fin
\* ... where its RTT sample comes from: the SYN's instant, the stretch
\* the cache invalidated, the FIN's timer, or nowhere
RttSource(st, sequence, fin_timedout) ==
    IF AcknowledgesSyn(st, sequence) THEN "syn"
    ELSE IF QueueInvalidateRtt(st.cache, sequence) THEN "cache"
    ELSE IF AcknowledgesFin(st, sequence) /\ ~st.cache_fin_retrans /\ ~fin_timedout
         THEN "fin"
    ELSE "none"
\* TcpTxState::acknowledge; rtt is the time the sampled timer shows and
\* fin_timedout is timer.is_timedout() of the FIN timer
acknowledge(st, sequence, rtt, fin_timedout) ==
    LET s1  == IF AcknowledgesSyn(st, sequence)
               THEN add_sequence([st EXCEPT !.cache_syn = FALSE], 1) ELSE st
        s2  == [s1 EXCEPT !.cache = QueueInvalidateTo(@, sequence)]
        s3  == IF AcknowledgesFin(st, sequence)
               THEN add_sequence([s2 EXCEPT !.cache_fin = FALSE,
                                            !.cache_fin_retrans = FALSE], 1)
               ELSE s2
    IN  IF RttSource(st, sequence, fin_timedout) = "none" THEN s3
        ELSE update_rto(s3, rtt)
\* ... what it sampled: the source of the RTT, and whether bytes of the
\* sampled stretch had gone onto the wire more than once
NoSample == [source |-> "none", resent |-> FALSE]
Sampled(st, sequence, fin_timedout) ==
    [source |-> RttSource(st, sequence, fin_timedout),
     resent |-> /\ RttSource(st, sequence, fin_timedout) = "cache"
                /\ \E i \in QueueInvalidated(st.cache, sequence) :
                      st.cache.segs[i].resent]

update_syn_timer(st) == [st EXCEPT !.cache_syn = TRUE]
update_fin_timer(st) ==
    [st EXCEPT !.cache_fin_retrans = IF st.cache_fin THEN TRUE ELSE @,
               !.cache_fin = TRUE]
append_cache_fin(st) == update_fin_timer([st EXCEPT !.queue_fin = FALSE])
append_queue(st, n) == [st EXCEPT !.queue = @ + n]
append_queue_fin(st) == [st EXCEPT !.queue_fin = TRUE]

\* ----------------------------------------------------------- Forwarder
\* A Forwarder call works on a context F:
\*   st      the flow's TcpTxState
\*   mtu     src_mtu of the source host, or local_mtu
\*   failAt  the frame of this handler whose injection fails (0: none)
\*   build   "debug": an arithmetic overflow panics; "release": it wraps
\*   rem     the receive window's remaining() at this moment
\*   cache0  the send cache's length when send_tcp_ack was entered
\*   out     frames put on the wire, sent their number
\*   err     an io::Error is being returned (the ? operator)
\*   halt    "panic": the thread panicked; "loop": the call never returns
\*   ovf     a usize subtraction overflowed
\*   sacks   the SACK ranges retransmit_tcp_ack_without was called with
\*   stamp   the RTO get_timed_out_and_update was called with (Option)
Ctx(st, mtu, failAt, build, rem) ==
    [st |-> st, mtu |-> mtu, failAt |-> failAt, build |-> build, rem |-> rem,
     cache0 |-> st.cache.len, out |-> <<>>, sent |-> 0, err |-> FALSE,
     halt |-> "run", ovf |-> FALSE, sacks |-> << >>, stamp |-> {}]

\* Forwarder::get_tcp_window
GetTcpWindowNoSws(st) == st.window
get_tcp_window(st) ==
    IF st.window < Min(RECV_WINDOW \div 2, LOCAL_MTU) THEN 0 ELSE st.window

\* a TCP segment as built by Tcp::new_*; the fields after len record the
\* flow at the moment of emission
Frame(F, kind, seq, len, new) ==
    [kind |-> kind, seq |-> seq, ack |-> F.st.acknowledgement,
     window |-> get_tcp_window(F.st), len |-> len,
     new |-> new, mtu |-> F.mtu, cache_len |-> F.st.cache.len,
     cache0 |-> F.cache0, send_window |-> F.st.send_window,
     queue |-> F.st.queue, rem |-> F.rem, syn |-> {}]

\* Forwarder::send / send_with_payload: tx.send_to may return an error
Send(F, frame) ==
    IF F.failAt # 0 /\ F.sent + 1 = F.failAt
    THEN [F EXCEPT !.err = TRUE, !.sent = @ + 1]
    ELSE [F EXCEPT !.out = Append(@, frame), !.sent = @ + 1]

\* mtu - (Ipv4::minimum_len() + Tcp::minimum_len()) in usize
Underflows(F) == F.mtu < HEADER_LEN
Mss(F) == (F.mtu - HEADER_LEN) % (USIZE_MAX + 1)
Panic(F) == [F EXCEPT !.err = TRUE, !.halt = "panic", !.ovf = TRUE]
Wrapped(F) == [F EXCEPT !.ovf = @ \/ Underflows(F)]

\* the FIN test of the segmentation loop: payload is shadowed by the
\* segment's slice, so payload.len() is the segment's size
SegmentIsFin(is_fin, mss, i, size, n) == is_fin /\ mss * (i + 1) >= size

\* the segment size of the segmentation loop
SegmentSize(mss, n, i) == Min(mss, n - i * mss)

\* Forwarder::send_tcp_ack_raw, the loop from iteration i on
RECURSIVE AckRawLoop(_, _, _, _, _, _, _)
AckRawLoop(F, sequence, n, is_fin, mss, i, new) ==
    IF ~(mss * i < n) THEN F
    ELSE
      LET size == SegmentSize(mss, n, i)
          seq  == WrapAdd(sequence, i * mss)
          fin  == SegmentIsFin(is_fin, mss, i, size, n)
          rn   == IF fin THEN WrapInc(WrapAdd(seq, size)) ELSE WrapAdd(seq, size)
          F1   == Send(F, Frame(F, IF fin THEN "ACKFIN" ELSE "ACK", seq, size, new))
          sub  == WrapSub(rn, F1.st.sequence)
          F2   == IF sub <= MAX_U32_WINDOW_SIZE
                  THEN [F1 EXCEPT !.st = add_sequence(@, sub)] ELSE F1
      IN  IF F1.err THEN F1
          ELSE IF mss = 0 /\ F.failAt = 0
               THEN [F2 EXCEPT !.err = TRUE, !.halt = "loop"]
               ELSE AckRawLoop(F2, sequence, n, is_fin, mss, i + 1, new)

send_tcp_ack_raw(F, sequence, n, is_fin, new) ==
    IF Underflows(F) /\ F.build = "debug" THEN Panic(F)
    ELSE AckRawLoop(Wrapped(F), sequence, n, is_fin, Mss(F), 0, new)

send_tcp_ack_0(F) == Send(F, Frame(F, "ACK", F.st.sequence, 0, FALSE))
\* the MSS of send_tcp_ack_syn: local_mtu less the two headers, in usize,
\* then cut to a u16
AckSynMss(local_mtu) ==
    Min((local_mtu - HEADER_LEN) % (USIZE_MAX + 1), U16_MAX)
\* Forwarder::send_tcp_ack_syn; syn holds the options of Tcp::new_ack_syn
SendTcpAckSynSackAlways(F) ==
    Send(F, [Frame(F, "SYNACK", F.st.sequence, 0, FALSE) EXCEPT
               !.syn = {[mss |-> AckSynMss(LOCAL_MTU),
                         wscale |-> F.st.send_wscale, sack_perm |-> TRUE]}])
send_tcp_ack_syn(F) ==
    Send(F, [Frame(F, "SYNACK", F.st.sequence, 0, FALSE) EXCEPT
               !.syn = {[mss |-> AckSynMss(LOCAL_MTU),
                         wscale |-> F.st.send_wscale,
                         sack_perm |-> F.st.sack_perm]}])
send_tcp_ack_rst(F) == Send(F, Frame(F, "ACKRST", F.st.sequence, 0, FALSE))
send_tcp_fin(F) == Send(F, Frame(F, "FIN", F.st.sequence, 0, FALSE))
\* Tcp::new_rst(.., 0, 0, 0, None): no flow state is read
send_tcp_rst(F) ==
    Send(F, [Frame(F, "RST", 0, 0, FALSE) EXCEPT !.ack = 0, !.window = 0])

\* the drainable byte count of send_tcp_ack
DrainSizeNoWindow(st) == st.queue
DrainSize(st) ==
    Min(Min(Max(st.send_window - st.cache.len, 0), U16_MAX), st.queue)
\* send-side SWS avoidance of send_tcp_ack
SwsSizeNone(size, mss, st) == size
SwsSize(size, mss, st) == IF size < mss /\ st.cache.len # 0 THEN 0 ELSE size
\* the pure FIN of send_tcp_ack is sent when ...
PureFinReady(st) == st.queue_fin /\ st.cache.len = 0

\* send_tcp_ack, the part under "if state.send_window() > 0"
SendTcpAckDrain(F) ==
    IF Underflows(F) /\ F.build = "debug" THEN Panic(F)
    ELSE
      LET st   == F.st
          size == SwsSize(DrainSize(st), Mss(F), st)
          \* TcpTxState::append_cache: drain the queue, append to the cache
          s1   == [st EXCEPT !.queue = @ - size, !.cache = QueueAppend(@, size)]
          fin  == s1.queue = 0 /\ s1.queue_fin
          s2   == IF fin THEN append_cache_fin(s1) ELSE s1
      IN  IF size = 0 THEN Wrapped(F)
          ELSE IF ~QueueCanAppend(st.cache, size)
               THEN [Wrapped(F) EXCEPT !.st.queue = @ - size, !.err = TRUE]
               ELSE send_tcp_ack_raw([Wrapped(F) EXCEPT !.st = s2],
                                     s2.sequence, size, fin, TRUE)

\* send_tcp_ack, the part under "If the queue is empty and a FIN is queued"
SendTcpAckFin(F) ==
    IF F.err THEN F
    ELSE IF PureFinReady(F.st)
         THEN send_tcp_fin([F EXCEPT !.st = append_cache_fin(@)])
         ELSE F

\* send_tcp_ack on a context that has recorded the cache's length
SendTcpAckFrom(F) ==
    IF F.st.cache_syn THEN send_tcp_ack_syn(F)
    ELSE SendTcpAckFin(IF F.st.send_window > 0 THEN SendTcpAckDrain(F) ELSE F)

\* Forwarder::send_tcp_ack
send_tcp_ack(F) == SendTcpAckFrom([F EXCEPT !.cache0 = F.st.cache.len])

\* Forwarder::retransmit_tcp_ack (Go-Back-N)
retransmit_tcp_ack(F) ==
    LET c == F.st.cache
    IN  IF c.len > 0
        THEN send_tcp_ack_raw([F EXCEPT !.st.cache = QueueGet(@, c.sequence, c.len)],
                              c.sequence, c.len, F.st.cache_fin, FALSE)
        ELSE F

\* the RTO retransmit_tcp_ack_timedout hands to get_timed_out_and_update
TimedOutRto(st) == Max(MAX_RTO, Min(MIN_RTO, SatMul(st.rto, 2)))

\* Forwarder::retransmit_tcp_ack_timedout; get_timed_out_and_update
\* returned the first n bytes of the cache, fin_timedout is
\* timer.is_timedout() of the FIN timer
retransmit_tcp_ack_timedout(F, n, fin_timedout) ==
    LET F0 == [F EXCEPT !.st.cache = QueueGetTimedOutAndUpdate(@, n),
                        !.stamp = {TimedOutRto(F.st)}]
        st == F0.st
        c  == st.cache
        Fd == [F0 EXCEPT !.st = double_rto(@)]
    IN  IF c.len > 0
        THEN IF c.len = n /\ st.cache_fin
             THEN send_tcp_ack_raw([Fd EXCEPT !.st = update_fin_timer(@)],
                                   c.sequence, n, TRUE, FALSE)
             ELSE send_tcp_ack_raw(Fd, c.sequence, n, FALSE, FALSE)
        ELSE IF st.cache_fin /\ fin_timedout
             THEN send_tcp_fin([F0 EXCEPT !.st = update_fin_timer(double_rto(@))])
             ELSE F0

\* disjoint_u32_range(main, sub): a sequence of at most two ranges
disjoint_u32_range(main, sub) ==
    LET size_main   == WrapSub(main[2], main[1])
        diff_first  == WrapSub(sub[1], main[1])
        diff_second == WrapSub(sub[2], main[2])
        diff        == WrapSub(sub[2], main[1])
    IN  IF diff_first <= MAX_U32_WINDOW_SIZE
        THEN IF diff_second > MAX_U32_WINDOW_SIZE
             THEN << <<main[1], sub[1]>>, <<sub[2], main[2]>> >>
             ELSE IF diff_first >= size_main
                  THEN << <<main[1], main[2]>> >>
                  ELSE << <<main[1], sub[1]>> >>
        ELSE IF diff_second > MAX_U32_WINDOW_SIZE
             THEN IF diff > MAX_U32_WINDOW_SIZE
                  THEN << <<main[1], main[2]>> >>
                  ELSE << <<sub[2], main[2]>> >>
             ELSE << >>

\* the flattening loops of retransmit_tcp_ack_without
RECURSIVE DisjointEach(_, _)
DisjointEach(ranges, sack) ==
    IF ranges = << >> THEN << >>
    ELSE disjoint_u32_range(Head(ranges), sack) \o DisjointEach(Tail(ranges), sack)
RECURSIVE DisjointAll(_, _)
DisjointAll(ranges, sacks) ==
    IF sacks = << >> THEN ranges
    ELSE DisjointAll(DisjointEach(ranges, Head(sacks)), Tail(sacks))

\* the retransmit loop of retransmit_tcp_ack_without
RECURSIVE RetransmitRanges(_, _, _)
RetransmitRanges(F, ranges, recv_next) ==
    IF ranges = << >> \/ F.err THEN F
    ELSE
      LET r    == Head(ranges)
          size == WrapSub(r[2], r[1])
          F1   == IF ~QueueCanGet(F.st.cache, r[1], size)
                  THEN [F EXCEPT !.err = TRUE]
                  ELSE IF size > 0
                       THEN send_tcp_ack_raw(
                                [F EXCEPT !.st.cache = QueueGet(@, r[1], size)],
                                r[1], size,
                                r[2] = recv_next /\ F.st.cache_fin, FALSE)
                       ELSE F
      IN  RetransmitRanges(F1, Tail(ranges), recv_next)

\* retransmit_tcp_ack_without, the pure FIN after the retransmit loop
RetransmitFin(F, ranges) ==
    IF F.err THEN F
    ELSE IF ranges = << >> /\ F.st.cache_fin THEN send_tcp_fin(F)
    ELSE F

\* retransmit_tcp_ack_without on the ranges left after the SACKs
RetransmitWithout(F, ranges) ==
    RetransmitFin(RetransmitRanges(F, ranges, QueueRecvNext(F.st.cache)), ranges)

\* Forwarder::retransmit_tcp_ack_without (selective retransmission)
retransmit_tcp_ack_without(F, sacks) ==
    RetransmitWithout([F EXCEPT !.sacks = sacks],
        DisjointAll(<< <<F.st.cache.sequence, QueueRecvNext(F.st.cache)>> >>,
                    sacks))

\* ------------------------------------------------------- ForwardStream
\* ForwardStream::open
open(F) ==
    LET F1 == send_tcp_ack_syn(F)
    IN  IF F1.err THEN F1 ELSE [F1 EXCEPT !.st = update_syn_timer(@)]
\* ForwardStream::forward; Forwarder::append_to_queue
ForwardNoFinTest(F, n) == send_tcp_ack([F EXCEPT !.st = append_queue(@, n)])
forward(F, n) ==
    IF F.st.cache_fin \/ F.st.queue_fin THEN [F EXCEPT !.err = TRUE]
    ELSE send_tcp_ack([F EXCEPT !.st = append_queue(@, n)])
\* ForwardStream::tick
tick(F, n, fin_timedout) == retransmit_tcp_ack_timedout(F, n, fin_timedout)
\* ForwardStream::close
close(F) == send_tcp_ack([F EXCEPT !.st = append_queue_fin(@)])

\* ---------------------------------------------------------- TcpRxState
\* const DUPLICATES_THRESHOLD
DUPLICATES_THRESHOLD == 3

\* TcpRxState::new; last_retrans is modelled by whether it is set
TcpRxStateNew(sequence, wscale, sack_perm) ==
    [recv_next |-> WrapInc(sequence),
     last_acknowledgement |-> 0,
     duplicate |-> 0,
     last_retrans |-> FALSE,
     wscale |-> wscale,
     sack_perm |-> sack_perm,
     cache |-> WindowNew(Shl(RECV_WINDOW, wscale), WrapInc(sequence)),
     fin_sequence |-> {}]

add_recv_next(rx, n) == [rx EXCEPT !.recv_next = WrapAdd(@, n)]
clear_duplicate(rx) == [rx EXCEPT !.duplicate = 0]
set_last_retrans(rx) == [rx EXCEPT !.last_retrans = TRUE]
\* set_fin_sequence recording the FIN where recv_next stands, so that every
\* copy of the FIN is admitted
SetFinSequenceAtRecvNext(rx, sequence) ==
    [rx EXCEPT !.fin_sequence = {rx.recv_next}]
set_fin_sequence(rx, sequence) == [rx EXCEPT !.fin_sequence = {sequence}]
admit_fin(rx) == [rx EXCEPT !.fin_sequence = {}]

\* TcpRxState::increase_duplicate: the state afterwards; the counter
\* stops at the threshold, above which the code does not tell its values
\* apart
IncreaseDuplicateState(rx, acknowledgement) ==
    IF rx.last_acknowledgement = acknowledgement
    THEN [rx EXCEPT !.duplicate = Min(@ + 1, DUPLICATES_THRESHOLD)]
    ELSE [clear_duplicate(rx) EXCEPT !.last_acknowledgement = acknowledgement]
\* ... and its result; in_cool_down is whether last_retrans.elapsed() is
\* below RETRANS_COOL_DOWN
IncreaseDuplicateNoCoolDown(rx, acknowledgement, in_cool_down) ==
    /\ rx.last_acknowledgement = acknowledgement
    /\ rx.duplicate + 1 >= DUPLICATES_THRESHOLD
increase_duplicate(rx, acknowledgement, in_cool_down) ==
    /\ rx.last_acknowledgement = acknowledgement
    /\ rx.duplicate + 1 >= DUPLICATES_THRESHOLD
    /\ ~(rx.last_retrans /\ in_cool_down)
\* ... and its is_cooled_down, where it is computed: the duplicate ACK
\* came within RETRANS_COOL_DOWN of last_retrans
IsCooledDown(rx, acknowledgement, in_cool_down) ==
    /\ rx.last_acknowledgement = acknowledgement
    /\ rx.duplicate + 1 >= DUPLICATES_THRESHOLD
    /\ rx.last_retrans /\ in_cool_down

\* --------------------------------------------------------- StreamWorker
StreamWorkerNew == [is_read_closed |-> FALSE, is_write_closed |-> FALSE]
shutdown_write(stream) == [stream EXCEPT !.is_write_closed = TRUE]

\* ----------------------------------------------------------- Redirector
\* A handler works on a context R: the Forwarder context F, the flow's
\* TcpRxState rx and StreamWorker stream, whether the three tables hold
\* the flow key, and cool: the handler found the flow in its cool-down.
FlowKey == "flow"
NoMap == [k \in {} |-> 0]
MapPut(m, v) == [k \in {FlowKey} |-> v]
Has(m) == FlowKey \in DOMAIN m

\* the placeholder read when a table has no entry
NoTxState == TcpTxStateNew(0, 0, 0, {}, FALSE, {})
NoRxState == TcpRxStateNew(0, 0, FALSE)

\* the guard of the Forwarder's mutex is taken and dropped, and a
\* suspension point is passed with or without it
Lock(R) == [R EXCEPT !.locked = TRUE]
UnlockNever(R) == R
Unlock(R) == [R EXCEPT !.locked = FALSE]
Await(R, point) ==
    [R EXCEPT !.awaited = @ \cup {[point |-> point, locked |-> R.locked]}]

\* Forwarder::clean_up and Redirector::clean_up
clean_up(R) ==
    [R EXCEPT !.has_stream = FALSE, !.has_rx = FALSE, !.has_tx = FALSE]

\* the window handle_tcp_ack hands to set_window
CacheRemainingSize(rx) ==
    Shr(WindowRemaining(rx.cache), rx.wscale) % (U16_MAX + 1)

\* Redirector::handle_tcp_fin
handle_tcp_fin(R, tcp) ==
    IF ~R.has_stream THEN [R EXCEPT !.F = send_tcp_rst(@)]
    ELSE
      LET is_readable == ~R.stream.is_read_closed
          rx1 == IF tcp.is_fin
                 THEN set_fin_sequence(R.rx, WrapAdd(tcp.sequence, tcp.len))
                 ELSE R.rx
          rx2 == add_recv_next(admit_fin(rx1), 1)
          F1  == send_tcp_ack_0([R.F EXCEPT !.st = add_acknowledgement(@, 1)])
      IN  IF rx1.fin_sequence = {} THEN R
          ELSE IF rx1.fin_sequence = {rx1.recv_next}
          THEN IF F1.err THEN [R EXCEPT !.rx = rx2, !.F = F1]
               ELSE IF is_readable
               THEN [R EXCEPT !.rx = rx2, !.F = F1,
                              !.stream = shutdown_write(@)]
               ELSE clean_up([R EXCEPT !.rx = rx2, !.F = F1])
          ELSE IF tcp.len = 0
               THEN [R EXCEPT !.rx = rx1, !.F = send_tcp_ack_0(@)]
               ELSE [R EXCEPT !.rx = rx1]

\* handle_tcp_ack from "Trigger sending remaining data" on
AckFin(R, tcp) ==
    IF R.F.err THEN R
    ELSE IF tcp.is_fin \/ R.rx.fin_sequence # {}
         THEN handle_tcp_fin(R, tcp)
         ELSE R
AckTail(R, tcp) ==
    IF R.F.err THEN R
    ELSE AckFin([R EXCEPT !.F = send_tcp_ack(@)], tcp)

\* the LAST_ACK test of handle_tcp_ack
IsLastAck(R, st) == R.stream.is_write_closed /\ st.cache.len + st.queue = 0

\* handle_tcp_ack, a segment without payload
\* ... after a fast retransmission
AckRetransmitted(R) ==
    IF R.F.err THEN R
    ELSE [R EXCEPT !.rx = set_last_retrans(clear_duplicate(@))]
\* ... the duplicate ACK count and the fast retransmission
AckDuplicate(R, tcp, in_cool_down) ==
    IF increase_duplicate(R.rx, tcp.acknowledgement, in_cool_down)
       /\ tcp.window # 0
    THEN AckRetransmitted(
           [R EXCEPT !.rx = IncreaseDuplicateState(@, tcp.acknowledgement),
                     !.cool = IsCooledDown(R.rx, tcp.acknowledgement, in_cool_down),
                     !.F = IF R.rx.sack_perm /\ tcp.sack # << >>
                           THEN retransmit_tcp_ack_without(@, tcp.sack)
                           ELSE retransmit_tcp_ack(@)])
    ELSE [R EXCEPT !.rx = IncreaseDuplicateState(@, tcp.acknowledgement),
                   !.cool = IsCooledDown(R.rx, tcp.acknowledgement, in_cool_down)]
AckPure(R, tcp, in_cool_down) ==
    IF IsLastAck(R, R.F.st) THEN clean_up(R)
    ELSE AckTail(AckDuplicate(R, tcp, in_cool_down), tcp)

\* handle_tcp_ack, a segment with payload, up to stream.send(..).await;
\* wait is the length of the contiguous prefix handed to stream.send
AckPayload(R, tcp) ==
    LET w   == R.rx.cache
        old == WindowIsOld(w, tcp.sequence)
        w2  == IF old THEN w ELSE WindowAppend(w, tcp.sequence, tcp.len)
        p   == IF old THEN 0 ELSE WindowAppendPrefix(w, tcp.sequence, tcp.len)
        rx2 == [R.rx EXCEPT !.cache = w2]
        F1  == [R.F EXCEPT !.rem = WindowRemaining(w2)]
        F2  == send_tcp_ack_0([F1 EXCEPT !.st = set_window(@, CacheRemainingSize(rx2))])
    IN  IF ~old /\ ~WindowFits(w, tcp.sequence, tcp.len)
        THEN [R EXCEPT !.F.err = TRUE]
        ELSE IF p > 0
             THEN Await([R EXCEPT !.rx = rx2, !.F = F1, !.wait = p], "send")
        ELSE AckTail([R EXCEPT !.rx = rx2, !.F = F2], tcp)

\* handle_tcp_ack, the block that acknowledges and sets the send window
\* under the guard
AckLocked(R, tcp, rtt, fin_timedout) ==
    LET st1 == set_send_window(acknowledge(R.F.st, tcp.acknowledgement,
                                           rtt, fin_timedout),
                               Shl(tcp.window, R.rx.wscale))
    IN  Unlock([Lock(R) EXCEPT
                  !.F.st = st1,
                  !.sample = Sampled(R.F.st, tcp.acknowledgement,
                                     fin_timedout)])

\* Redirector::handle_tcp_ack up to its first suspension or its return
handle_tcp_ack(R, tcp, in_cool_down, rtt, fin_timedout) ==
    IF ~R.has_stream THEN [R EXCEPT !.F = send_tcp_rst(@)]
    ELSE IF tcp.len > 0
         THEN AckPayload(AckLocked(R, tcp, rtt, fin_timedout), tcp)
         ELSE AckPure(AckLocked(R, tcp, rtt, fin_timedout), tcp, in_cool_down)

\* handle_tcp_ack after stream.send(..).await returned Ok
AckSendOk(R, tcp, p) ==
    LET rx1 == add_recv_next(R.rx, p)
        st1 == add_acknowledgement(set_window(R.F.st, CacheRemainingSize(R.rx)), p)
        F1  == send_tcp_ack_0([R.F EXCEPT !.st = st1])
    IN  AckTail([R EXCEPT !.rx = rx1, !.F = F1], tcp)

\* handle_tcp_ack after stream.send(..).await returned Err
AckSendErr(R) ==
    LET F1 == send_tcp_ack_rst(R.F)
    IN  IF F1.err THEN [R EXCEPT !.F = F1]
        ELSE clean_up([R EXCEPT !.F = F1])

\* ---------------------------------------------------------------- state
VARIABLES
    tx_states,   \* Forwarder.states: flow key -> TcpTxState
    src_mtu,     \* Forwarder.src_mtu of the source host (Option)
    rx_states,   \* Redirector.states: flow key -> TcpRxState
    streams,     \* Redirector.streams: flow key -> StreamWorker
    wait,        \* handle_tcp_ack stopped in stream.send(..).await or
                 \* between the LAST_ACK test and the clean-up (Option)
    wire,        \* the frames the last step put on the wire
    halt,        \* "run", "panic" (a thread panicked), "loop" (no return)
    build,       \* "unknown" until an overflow tells debug from release
    peer,        \* the source host: sequence of its SYN, of our SYN, of its FIN
    op,          \* the handler that ran last
    sacks,       \* the SACK ranges of the selective retransmission it performed
    cooling,     \* it found the flow within its fast retransmission cool-down
    stamp,       \* the RTO it re-timestamped timed-out bytes with (Option)
    sample,      \* where its RTT sample came from, and of bytes sent how often
    err,         \* it returned an io::Error
    awaited,     \* the suspension points it passed, and the guard held there
    datagrams,   \* Redirector.datagrams: local port -> DatagramWorker
    datagram_map,  \* Redirector.datagram_map: source socket -> local port
    udp_lru,     \* Redirector.udp_lru, least recently used first
    src_hardware_addr,  \* Forwarder.src_hardware_addr: source IP -> MAC
    is_tx_src_hardware_addr_set,  \* Redirector.is_tx_src_hardware_addr_set
    ipv4_identification_map,  \* Forwarder.ipv4_identification_map
    bound,       \* the binding handle_udp used, and the source it evicted
    asked,       \* the source hosts whose ARP request was handled
    call         \* the call of a function without state: arguments, result

\* the UDP and ARP state, and the function calls
side == <<datagrams, datagram_map, udp_lru, src_hardware_addr,
          is_tx_src_hardware_addr_set, ipv4_identification_map, bound, asked,
          call>>

vars == <<tx_states, src_mtu, rx_states, streams, wait, wire, halt, build, peer,
          op, sacks, cooling, stamp, sample, err, awaited, side>>

Mtu(mtus) == UnwrapOr(mtus, LOCAL_MTU)
\* Forwarder::set_src_mtu
set_src_mtu(mtu) == {Min(LOCAL_MTU, mtu)}

\* the build matters only to a step that can overflow
Builds(mtus) ==
    IF build # "unknown" THEN {build}
    ELSE IF Mtu(mtus) < HEADER_LEN THEN {"debug", "release"} ELSE {"release"}
FailAts == 0 .. MaxInjAt

\* the context a handler starts from
Start(mtus, failAt, b) ==
    LET rx == IF Has(rx_states) THEN rx_states[FlowKey] ELSE NoRxState
        st == IF Has(tx_states) THEN tx_states[FlowKey] ELSE NoTxState
    IN  [F |-> Ctx(st, Mtu(mtus), failAt, b, WindowRemaining(rx.cache)),
         rx |-> rx,
         stream |-> IF Has(streams) THEN streams[FlowKey] ELSE StreamWorkerNew,
         has_tx |-> Has(tx_states), has_rx |-> Has(rx_states),
         has_stream |-> Has(streams), wait |-> 0, cool |-> FALSE,
         sample |-> NoSample, locked |-> FALSE, awaited |-> {}]

\* the state a handler leaves
Finish(R, name) ==
    /\ tx_states' = IF R.has_tx THEN MapPut(tx_states, R.F.st) ELSE NoMap
    /\ rx_states' = IF R.has_rx THEN MapPut(rx_states, R.rx) ELSE NoMap
    /\ streams' = IF R.has_stream THEN MapPut(streams, R.stream) ELSE NoMap
    /\ wire' = R.F.out
    /\ halt' = R.F.halt
    /\ build' = IF R.F.ovf THEN R.F.build ELSE build
    /\ op' = name
    /\ sacks' = R.F.sacks
    /\ cooling' = R.cool
    /\ stamp' = R.F.stamp
    /\ sample' = R.sample
    /\ err' = R.F.err
    /\ awaited' = R.awaited
    /\ UNCHANGED side

\* ... of a handler that may have suspended in stream.send(..).await
Suspend(R, tcp, name) ==
    /\ wait' = IF R.wait > 0
               THEN {[tcp |-> tcp, p |-> R.wait, locked |-> R.locked,
                      at |-> "send"]}
               ELSE {}
    /\ Finish(R, name)

Idle == halt = "run" /\ wait = {}
\* no suspended handler holds the guard of the Forwarder's mutex: a
\* worker's self.tx.lock() returns
GuardFree == \A w \in wait : ~w.locked

NoCall == [f |-> "none"]
NoBound ==
    [src |-> {}, port |-> {}, evicted |-> {}, worker |-> {}, full |-> FALSE]

\* Redirector::new and Forwarder::new, before a function is called
InitWith(c) ==
    /\ tx_states = NoMap /\ src_mtu = {} /\ rx_states = NoMap
    /\ streams = NoMap /\ wait = {} /\ wire = << >> /\ halt = "run"
    /\ build = "unknown"
    /\ peer = [irs |-> 0, isn |-> 0, fin |-> {}, wscale |-> {},
               sack_perm |-> FALSE]
    /\ op = "new" /\ sacks = << >> /\ cooling = FALSE
    /\ stamp = {} /\ sample = NoSample /\ err = FALSE
    /\ awaited = {}
    /\ datagrams = NoMap /\ datagram_map = NoMap /\ udp_lru = << >>
    /\ src_hardware_addr = NoMap /\ is_tx_src_hardware_addr_set = FALSE
    /\ ipv4_identification_map = NoMap /\ bound = NoBound /\ asked = {}
    /\ call = c

Init == InitWith(NoCall)

\* Redirector::handle_tcp_syn.  StreamWorker::connect calls
\* ForwardStream::open once the SOCKS connection stands; an error of open
\* is an error of connect.
handle_tcp_syn(R, tcp, isn, connect_ok) ==
    LET wscale == tcp.wscale
        recv_wscale == IF wscale = {} THEN {}
                       ELSE {Min(UnwrapOr(wscale, 0), MAX_RECV_WSCALE)}
        rx  == TcpRxStateNew(tcp.sequence, UnwrapOr(wscale, 0), tcp.sack_perm)
        st  == TcpTxStateNew(isn, WrapInc(tcp.sequence), tcp.window,
                             recv_wscale, tcp.sack_perm, wscale)
        R0  == Unlock([Lock(clean_up(R)) EXCEPT
                         !.has_tx = TRUE, !.F.st = st, !.F.cache0 = 0,
                         !.F.rem = WindowRemaining(rx.cache)])
        R1  == Await(R0, "connect")
        Fo  == open(R1.F)
        Fr  == send_tcp_ack_rst(
                 [(IF connect_ok THEN [Fo EXCEPT !.err = FALSE] ELSE R1.F)
                     EXCEPT !.st = add_acknowledgement(@, 1)])
    IN  IF R.has_stream THEN R
        ELSE IF connect_ok /\ ~Fo.err
             THEN [R1 EXCEPT !.F = Fo, !.rx = rx, !.has_rx = TRUE,
                             !.stream = StreamWorkerNew, !.has_stream = TRUE]
             ELSE IF Fr.err THEN [R1 EXCEPT !.F = Fr]
                  ELSE clean_up([R1 EXCEPT !.F = Fr])

\* ------------------------------------------------------------ scenarios
\* What the environment of a run does: the SYN options and later windows of
\* the source host, the ICMP messages, the frames whose injection fails,
\* the outcome of the SOCKS connect, the peer's payload, how much the
\* SOCKS side sends, the times the timers show, and how many cached bytes
\* a tick finds timed out.
Scenario(wscales, icmp, fails, windows, dup, seg, far, bytes, fwd, rtts, late) ==
    [wscales |-> wscales, icmp |-> icmp, fails |-> fails,
     windows |-> windows, dup |-> dup, seg |-> seg, far |-> far,
     bytes |-> bytes, fwd |-> fwd, rtts |-> rtts, late |-> late]

\* a transfer towards the source host: its windows and its FIN
Sending ==
    Scenario({{}}, {}, {0}, PeerWindowValues, 1, 0, FALSE, 0, MaxSendBytes,
             {0}, MaxLate)
\* a longer transfer towards a source host that keeps its window open
Draining ==
    Scenario({{}}, {}, {0}, {U16_MAX}, 0, 0, FALSE, 0, MaxDrainBytes, {0}, 0)
\* duplicate ACKs and SACK ranges of the source host
Repeating ==
    Scenario({{}}, {}, {0}, {U16_MAX}, MaxDup, 0, FALSE, 0, MaxDupBytes,
             {0}, MaxLate)
\* a transfer from the source host: its payload, in and out of order
Receiving ==
    Scenario(SynWscaleValues, {}, {0}, {U16_MAX}, 0, MaxSegLen, TRUE,
             MaxPeerBytes, 1, {0}, 0)
\* frames whose injection fails, on a short transfer towards the source
\* host
Failing ==
    Scenario({{}}, {}, FailAts, {U16_MAX}, 0, 0, FALSE, 0, 1, {0}, 0)
\* ICMP "fragmentation required" messages with a small next-hop MTU
Shrinking ==
    Scenario({{}}, IcmpMtuValues, {0}, {U16_MAX}, 0, 0, FALSE, 0, MaxMtuBytes,
             {0}, 0)
\* round trip times from none to the longest a u64 holds, on a short
\* transfer towards the source host
Timing ==
    Scenario({{}}, {}, {0}, {U16_MAX}, 0, 0, FALSE, 0, MaxRttBytes, RttValues,
             MaxRttBytes)

\* Redirector::handle_tcp_syn on a SYN whose sequence number is one of
\* seqs and whose SACK-permitted option is one of perms
TcpSyn(I, seqs, perms) ==
    \E seq \in seqs, wscale \in I.wscales, mss \in SynMssValues,
       window \in SynWindowValues, isn \in IsnValues, connect_ok \in BOOLEAN,
       failAt \in I.fails, sack_perm \in perms :
      LET tcp  == [sequence |-> seq, wscale |-> wscale,
                   sack_perm |-> sack_perm, window |-> window]
          mtus == IF mss = {} THEN src_mtu
                  ELSE set_src_mtu(HEADER_LEN + UnwrapOr(mss, 0))
      IN  /\ Idle
          /\ ~Has(streams)
          /\ src_mtu' = mtus
          /\ peer' = [irs |-> seq, isn |-> isn, fin |-> {},
                      wscale |-> wscale, sack_perm |-> sack_perm]
          /\ wait' = wait
          /\ Finish(handle_tcp_syn(Start(mtus, failAt, "release"), tcp, isn,
                                   connect_ok),
                  "HandleTcpSyn")

HandleTcpSyn(I) == TcpSyn(I, PeerIsnValues, {TRUE})

\* handle_tcp_syn for a flow that has a stream: the SYN is dropped
HandleTcpSynDrop ==
    /\ Idle
    /\ Has(streams)
    /\ UNCHANGED <<src_mtu, wait, peer>>
    /\ Finish(handle_tcp_syn(Start(src_mtu, 0, "release"),
                             [sequence |-> 0, wscale |-> {}, sack_perm |-> TRUE,
                              window |-> 0], 0, TRUE),
                  "HandleTcpSynDrop")

\* Redirector::handle_tcp_rst
HandleTcpRst ==
    /\ Idle
    /\ Has(tx_states)
    /\ UNCHANGED <<src_mtu, wait, peer>>
    /\ Finish(clean_up(Start(src_mtu, 0, "release")),
                  "HandleTcpRst")

\* Redirector::handle_icmpv4, fragmentation required and DF set
HandleIcmpv4(I) ==
    \E mtu \in I.icmp :
      /\ Idle
      /\ src_mtu' = set_src_mtu(mtu)
      /\ wire' = << >>
      /\ op' = "HandleIcmpv4"
      /\ sacks' = << >> /\ cooling' = FALSE
      /\ stamp' = {} /\ sample' = NoSample /\ err' = FALSE
      /\ awaited' = {}
      /\ UNCHANGED <<tx_states, rx_states, streams, wait, halt, build, peer,
                     side>>

\* ------------------------------------------------------ inbound segments
\* acknowledgement numbers the source host sends: what it has received,
\* up to everything sent including an outstanding SYN or FIN
AckValues(st) ==
    IF st.cache_syn THEN {SeqAdd(st.cache.sequence, 1)}
    ELSE {SeqAdd(st.cache.sequence, j) :
            j \in 0 .. st.cache.len + (IF st.cache_fin THEN 1 ELSE 0)}

\* SACK ranges of a duplicate ACK, as offsets from the byte the ACK asks
\* for: ranges of bytes sent above that byte
SackOffsets(st) ==
    {p \in (1 .. st.cache.len - 1) \X (2 .. st.cache.len) : p[1] < p[2]}
SackRange(st, p) ==
    <<SeqAdd(st.cache.sequence, p[1]), SeqAdd(st.cache.sequence, p[2])>>
\* SACK options of a duplicate ACK: none, one range, or two ranges with a
\* hole between them, in either order
SackValues(st) ==
    {<< >>} \cup {<<SackRange(st, p)>> : p \in SackOffsets(st)} \cup
    {<<SackRange(st, pq[1]), SackRange(st, pq[2])>> :
        pq \in {x \in SackOffsets(st) \X SackOffsets(st) :
                  x[1][2] < x[2][1] \/ x[2][2] < x[1][1]}}

\* offsets, from the receive window's base, at which a segment of n
\* bytes starts: at or near the base, and in a far scenario at the far
\* end of the window or one byte beyond it
SegOffsets(I, w, n) ==
    (0 .. MaxGap) \cup
    (IF I.far THEN {w.capacity - n - 1, w.capacity - n + 1} ELSE {})
\* ... or behind the base (a retransmission)
SegSequences(I, w, n) ==
    {SeqAdd(w.sequence, o) : o \in SegOffsets(I, w, n)}
        \cup {SeqSub(w.sequence, n)}

\* the source host sends its FIN once, at one sequence number, and no
\* payload beyond it
PeerAllows(I, rx, seq, n, is_fin) ==
    LET end == SeqAdd(seq, n)
    IN  /\ n > 0 => SeqSub(rx.cache.sequence, WrapInc(peer.irs)) < I.bytes
        /\ peer.fin # {} =>
             \A f \in peer.fin : IF is_fin THEN end = f
                                 ELSE n = 0 \/ WindowIsOld(rx.cache, seq)
                                      \/ SeqSub(f, end) <= MAX_U32_WINDOW_SIZE
        /\ is_fin => \/ peer.fin = {end}
                     \/ /\ ~WindowIsOld(rx.cache, end)
                        /\ SeqSub(end, WrapInc(peer.irs)) <= I.bytes
                        /\ \A o \in rx.cache.filled :
                              o < SeqSub(end, rx.cache.sequence)
        /\ n = 0 => seq = rx.cache.sequence \/ is_fin
PeerAfter(seq, n, is_fin) ==
    IF is_fin THEN [peer EXCEPT !.fin = {SeqAdd(seq, n)}] ELSE peer

\* the FIN timer is read only when the FIN may yield an RTT sample
FinSamples(st) == st.cache_fin /\ ~st.cache_fin_retrans
\* ... and a timer's elapsed time only when acknowledge takes a sample
TimerRead(I, st, ack, fin_timedout, rtt) ==
    RttSource(st, ack, fin_timedout) = "none"
        => \A r \in I.rtts : rtt <= r

\* Redirector::handle_tcp_ack on a segment without payload or FIN
HandleTcpAckPure(I) ==
    \E window \in I.windows, failAt \in I.fails, b \in Builds(src_mtu),
       in_cool_down \in BOOLEAN, fin_timedout \in BOOLEAN :
      /\ Idle
      /\ Has(streams)
      /\ in_cool_down => rx_states[FlowKey].last_retrans
      /\ fin_timedout => FinSamples(tx_states[FlowKey])
      /\ \E ack \in AckValues(tx_states[FlowKey]),
            sack \in SackValues(tx_states[FlowKey]), rtt \in I.rtts :
           LET tcp == [sequence |-> rx_states[FlowKey].cache.sequence,
                       acknowledgement |-> ack, len |-> 0, window |-> window,
                       is_fin |-> FALSE, sack |-> sack]
           IN  /\ ack = rx_states[FlowKey].last_acknowledgement
                    => rx_states[FlowKey].duplicate < I.dup
               /\ sack # << >> => ack = rx_states[FlowKey].last_acknowledgement
               /\ TimerRead(I, tx_states[FlowKey], ack, fin_timedout, rtt)
               /\ UNCHANGED <<src_mtu, wait, peer>>
               /\ Finish(handle_tcp_ack(Start(src_mtu, failAt, b), tcp,
                                        in_cool_down, rtt, fin_timedout),
                         "HandleTcpAckPure")

\* Redirector::handle_tcp_ack on a segment with payload or FIN, until it
\* returns or suspends; the segment repeats the acknowledgement and the
\* window of the source host's last segment
HandleTcpAckData(I) ==
    \E n \in 0 .. I.seg, is_fin \in BOOLEAN, failAt \in I.fails,
       b \in Builds(src_mtu), in_cool_down \in BOOLEAN, rtt \in I.rtts,
       fin_timedout \in BOOLEAN :
      /\ Idle
      /\ Has(streams)
      /\ n > 0 \/ is_fin
      /\ in_cool_down => rx_states[FlowKey].last_retrans
      /\ fin_timedout => FinSamples(tx_states[FlowKey])
      /\ \E seq \in SegSequences(I, rx_states[FlowKey].cache, n) :
           LET st  == tx_states[FlowKey]
               tcp == [sequence |-> seq,
                       acknowledgement |->
                           IF st.cache_syn THEN SeqAdd(st.cache.sequence, 1)
                           ELSE st.cache.sequence,
                       len |-> n,
                       window |-> Shr(st.send_window, rx_states[FlowKey].wscale),
                       is_fin |-> is_fin, sack |-> << >>]
           IN  /\ PeerAllows(I, rx_states[FlowKey], seq, n, is_fin)
               /\ TimerRead(I, st, tcp.acknowledgement, fin_timedout, rtt)
               /\ peer' = PeerAfter(seq, n, is_fin)
               /\ UNCHANGED src_mtu
               /\ Suspend(handle_tcp_ack(Start(src_mtu, failAt, b), tcp,
                                         in_cool_down, rtt, fin_timedout),
                          tcp,
                  "HandleTcpAckData")

\* handle_tcp_ack for a flow without a stream: RST
HandleTcpAckUnknown(I) ==
    \E failAt \in I.fails :
      /\ Idle
      /\ ~Has(streams)
      /\ UNCHANGED <<src_mtu, wait, peer>>
      /\ Finish([Start(src_mtu, failAt, "release") EXCEPT !.F = send_tcp_rst(@)],
                  "HandleTcpAckUnknown")

\* handle_tcp_ack resumes: stream.send(..).await returned
StreamSendReturns(I) ==
    \E ok \in BOOLEAN, failAt \in I.fails, b \in Builds(src_mtu), w \in wait :
      /\ halt = "run"
      /\ w.at = "send"
      /\ wait' = {}
      /\ UNCHANGED <<src_mtu, peer>>
      /\ Finish(IF ok THEN AckSendOk(Start(src_mtu, failAt, b), w.tcp, w.p)
                ELSE AckSendErr(Start(src_mtu, failAt, b)),
                  "StreamSendReturns")

\* Redirector::handle_tcp, a FIN without ACK
HandleTcpFin(I) ==
    \E failAt \in I.fails :
      /\ Idle
      /\ Has(streams)
      /\ \E seq \in SegSequences(I, rx_states[FlowKey].cache, 0) :
           /\ PeerAllows(I, rx_states[FlowKey], seq, 0, TRUE)
           /\ peer' = PeerAfter(seq, 0, TRUE)
           /\ UNCHANGED <<src_mtu, wait>>
           /\ Finish(handle_tcp_fin(Start(src_mtu, failAt, "release"),
                        [sequence |-> seq, len |-> 0, is_fin |-> TRUE]),
                  "HandleTcpFin")

\* --------------------------------------------------------- StreamWorker
\* the worker's reader got n bytes from the SOCKS stream
WorkerForward(I) ==
    \E n \in 1 .. MaxFwdLen, failAt \in I.fails, b \in Builds(src_mtu) :
      /\ halt = "run" /\ GuardFree
      /\ Has(streams) /\ ~streams[FlowKey].is_read_closed
      /\ tx_states[FlowKey].queue + n <= MaxQueue
      /\ SeqSub(SeqAdd(QueueRecvNext(tx_states[FlowKey].cache),
                        tx_states[FlowKey].queue), peer.isn) + n
           <= I.fwd + 1
      /\ UNCHANGED <<src_mtu, wait, peer>>
      /\ LET R == Start(src_mtu, failAt, b)
         IN  Finish([R EXCEPT !.F = forward(@, n)],
                  "WorkerForward")

\* ForwardStream::forward is called for a flow whose FIN is queued or
\* outstanding
ForwardPending(I) ==
    \E n \in 1 .. MaxFwdLen, failAt \in I.fails, b \in Builds(src_mtu) :
      /\ halt = "run" /\ GuardFree
      /\ Has(tx_states)
      /\ tx_states[FlowKey].cache_fin \/ tx_states[FlowKey].queue_fin
      /\ tx_states[FlowKey].queue + n <= MaxQueue
      /\ UNCHANGED <<src_mtu, wait, peer>>
      /\ LET R == Start(src_mtu, failAt, b)
         IN  Finish([R EXCEPT !.F = forward(@, n)],
                  "ForwardPending")

\* the worker's reader got EOF from the SOCKS stream
WorkerClose(I) ==
    \E failAt \in I.fails, b \in Builds(src_mtu) :
      /\ halt = "run" /\ GuardFree
      /\ Has(streams) /\ ~streams[FlowKey].is_read_closed
      /\ UNCHANGED <<src_mtu, wait, peer>>
      /\ LET R == Start(src_mtu, failAt, b)
         IN  Finish([R EXCEPT !.F = close(@), !.stream.is_read_closed = TRUE],
                  "WorkerClose")

\* the timer of the flow fires; the first n bytes of the cache, and the
\* FIN timer if fin_timedout, have timed out
WorkerTick(I) ==
    \E failAt \in I.fails, b \in Builds(src_mtu), fin_timedout \in BOOLEAN :
      /\ halt = "run" /\ GuardFree
      /\ Has(streams)
      /\ \E n \in 0 .. Min(I.late, tx_states[FlowKey].cache.len) :
           /\ fin_timedout => tx_states[FlowKey].cache_fin /\ n = tx_states[FlowKey].cache.len
           /\ UNCHANGED <<src_mtu, wait, peer>>
           /\ LET R == Start(src_mtu, failAt, b)
              IN  Finish([R EXCEPT !.F = tick(@, n, fin_timedout)],
                  "WorkerTick")

\* the steps every scenario has
Flow(I) ==
    \/ HandleTcpSyn(I)
    \/ HandleTcpSynDrop
    \/ HandleTcpRst
    \/ HandleTcpAckPure(I)
    \/ HandleTcpAckData(I)
    \/ HandleTcpAckUnknown(I)
    \/ HandleTcpFin(I)
    \/ WorkerForward(I)
    \/ WorkerClose(I)
    \/ WorkerTick(I)

Next == Flow(Sending)
Spec == Init /\ [][Next]_vars

SpecRecv == Init /\ [][Flow(Receiving) \/ StreamSendReturns(Receiving)]_vars

SpecErr == Init /\ [][Flow(Failing)]_vars

SpecMtu == Init /\ [][Flow(Shrinking) \/ HandleIcmpv4(Shrinking)]_vars

SpecSws == Init /\ [][Flow(Draining)]_vars

SpecDup == Init /\ [][Flow(Repeating)]_vars

SpecRto == Init /\ [][Flow(Timing) \/ ForwardPending(Timing)]_vars

\* the source host closes first and acknowledges; the SOCKS side still
\* sends
Closing ==
    Scenario({{}}, {}, {0}, {U16_MAX}, 0, 0, FALSE, 0, 1, {0}, 0)

\* Redirector::handle_tcp_ack on a segment without payload, up to the
\* LAST_ACK test: the guard that get_cache_size took is dropped with the
\* test, the clean-up takes it anew, and a worker on another thread of
\* the runtime may take it in between
HandleTcpAckLastAck(I) ==
    /\ Idle
    /\ Has(streams)
    /\ \E window \in I.windows, ack \in AckValues(tx_states[FlowKey]) :
         LET tcp == [sequence |-> rx_states[FlowKey].cache.sequence,
                     acknowledgement |-> ack, len |-> 0, window |-> window,
                     is_fin |-> FALSE, sack |-> << >>]
             R1  == AckLocked(Start(src_mtu, 0, "release"), tcp, 0, FALSE)
         IN  /\ IsLastAck(R1, R1.F.st)
             /\ wait' = {[tcp |-> tcp, p |-> 0, locked |-> R1.locked,
                          at |-> "last_ack"]}
             /\ UNCHANGED <<src_mtu, peer>>
             /\ Finish(R1, "HandleTcpAckLastAck")

\* ... and from the test on: streams.remove, states.remove, clean_up
LastAckCleanUp ==
    \E w \in wait :
      /\ halt = "run"
      /\ w.at = "last_ack"
      /\ wait' = {}
      /\ UNCHANGED <<src_mtu, peer>>
      /\ Finish(clean_up(Start(src_mtu, 0, "release")), "LastAckCleanUp")

SpecLastAck ==
    Init /\ [][\/ HandleTcpSyn(Closing) \/ HandleTcpAckPure(Closing)
               \/ HandleTcpFin(Closing) \/ HandleTcpAckLastAck(Closing)
               \/ LastAckCleanUp \/ WorkerForward(Closing)
               \/ WorkerClose(Closing)]_vars

\* SYNs of every kind, and nothing after them
Greeting ==
    Scenario(SynShiftValues, {}, {0}, {U16_MAX}, 0, 0, FALSE, 0, 0, {0}, 0)

\* ------------------------------------------- functions without state
\* a step that calls a function and touches no flow
Calls(c, name) ==
    /\ call' = c
    /\ op' = name
    /\ UNCHANGED <<tx_states, src_mtu, rx_states, streams, wait, wire, halt,
                   build, peer, sacks, cooling, stamp, sample, err, awaited,
                   datagrams, datagram_map, udp_lru, src_hardware_addr,
                   is_tx_src_hardware_addr_set, ipv4_identification_map,
                   bound, asked>>

\* a Forwarder built with one of the local MTU values
InitSyn ==
    \E m \in LocalMtuValues : InitWith([f |-> "mtu", local_mtu |-> m])
\* the MSS send_tcp_ack_syn computes from that local MTU
SendTcpAckSynMss ==
    /\ call.f = "mtu"
    /\ Calls([f |-> "mss", local_mtu |-> call.local_mtu,
              out |-> AckSynMss(call.local_mtu)], "SendTcpAckSynMss")
SpecSyn ==
    InitSyn /\ [][\/ TcpSyn(Greeting, SynSeqValues, BOOLEAN)
                  \/ HandleTcpSynDrop
                  \/ HandleTcpRst
                  \/ SendTcpAckSynMss]_vars

\* a transfer that fills the send cache: the SOCKS side sends one byte more
\* than the smallest cache holds, to a source host that advertises windows
\* from closed to fully open, without window scaling and with every scale
\* up to one more than MAX_RECV_WSCALE
Filling ==
    Scenario(SynShiftValues, {}, {0}, PeerWindowValues, 0, 0, FALSE, 0,
             RECV_WINDOW + 1, {0}, 0)
SpecFill ==
    Init /\ [][\/ HandleTcpSyn(Filling) \/ HandleTcpAckPure(Filling)
               \/ WorkerForward(Filling) \/ WorkerClose(Filling)]_vars

\* the runs in which a SYN-ACK gets lost: the source host retransmits its
\* SYN and the flow's timer keeps firing, so both steps are taken again
\* and again; the SOCKS side neither sends nor closes
SpecSynLost ==
    /\ Init
    /\ [][\/ TcpSyn(Greeting, SynSeqValues, BOOLEAN) \/ HandleTcpSynDrop
           \/ HandleTcpRst \/ WorkerTick(Greeting)]_vars
    /\ WF_vars(HandleTcpSynDrop)
    /\ WF_vars(WorkerTick(Greeting))

\* the arguments of a sequence increment: a u32 and the u32 added to it
InitAdd ==
    \E x \in 0 .. U32_MAX, n \in 0 .. U32_MAX :
      InitWith([f |-> "args", x |-> x, n |-> n])
\* TcpTxState::add_sequence on a flow whose sequence is x
AddSequence ==
    /\ call.f = "args"
    /\ Calls([f |-> "add", x |-> call.x, n |-> call.n,
              out |-> add_sequence([NoTxState EXCEPT !.sequence = call.x],
                                   call.n).sequence],
             "AddSequence")
\* TcpTxState::add_acknowledgement on a flow whose acknowledgement is x
AddAcknowledgement ==
    /\ call.f = "args"
    /\ Calls([f |-> "add", x |-> call.x, n |-> call.n,
              out |-> add_acknowledgement(
                          [NoTxState EXCEPT !.acknowledgement = call.x],
                          call.n).acknowledgement],
             "AddAcknowledgement")
\* TcpRxState::add_recv_next on a flow whose recv_next is x
AddRecvNext ==
    /\ call.f = "args"
    /\ Calls([f |-> "add", x |-> call.x, n |-> call.n,
              out |-> add_recv_next([NoRxState EXCEPT !.recv_next = call.x],
                                    call.n).recv_next],
             "AddRecvNext")
\* the distance of send_tcp_ack_raw and acknowledge, taken from the
\* incremented number back to the number it was incremented from
Distance ==
    /\ call.f = "add"
    /\ Calls([f |-> "sub", x |-> call.x, n |-> call.n, a |-> call.out,
              out |-> WrapSub(call.out, call.x)],
             "Distance")
SpecAdd ==
    InitAdd /\ [][AddSequence \/ AddAcknowledgement \/ AddRecvNext
                   \/ Distance]_vars

\* the arguments of disjoint_u32_range: main is lm bytes from a on, sub
\* is ls bytes and starts oc bytes after a (before a if oc is negative)
RangeOf(a, oc, len) ==
    <<(a + oc + U32_MAX + 1) % (U32_MAX + 1),
      (a + oc + len + U32_MAX + 1) % (U32_MAX + 1)>>
InitDisjoint ==
    \E a \in 0 .. U32_MAX, lm \in 1 .. MaxRange, ls \in 1 .. MaxRange,
       oc \in -(MaxRange + 1) .. MaxRange + 1 :
      InitWith([f |-> "ranges", a |-> a, lm |-> lm, ls |-> ls, oc |-> oc])
DisjointU32Range ==
    /\ call.f = "ranges"
    /\ Calls([f |-> "disjoint", a |-> call.a, lm |-> call.lm, ls |-> call.ls,
              oc |-> call.oc,
              out |-> disjoint_u32_range(RangeOf(call.a, 0, call.lm),
                                         RangeOf(call.a, call.oc, call.ls))],
             "DisjointU32Range")
SpecDisjoint == InitDisjoint /\ [][DisjointU32Range]_vars

\* ------------------------------------------------------ UDP datagrams
\* Ipv4::minimum_len()
IPV4_LEN == 20
\* Udp::minimum_len()
UDP_LEN == 8
\* MTU values of a source host that receives UDP: from the smallest that
\* holds a fragment of 8 bytes up to the local MTU
UdpMtuValues == IPV4_LEN + 8 .. LOCAL_MTU
\* payload lengths handed to send_udp
UdpLens == 0 .. MaxUdpLen

\* the source hosts, their hardware addresses, and the sockets they send
\* from
Hosts == {"h1", "h2"}
MacOf(ip) == IF ip = "h1" THEN "m1" ELSE "m2"
HARDWARE_ADDR_UNSPECIFIED == "00"

\* HashMap::insert, HashMap::remove and HashMap::get(..).unwrap_or(..)
Put(m, k, v) == [x \in DOMAIN m \cup {k} |-> IF x = k THEN v ELSE m[x]]
Remove(m, k) == [x \in DOMAIN m \ {k} |-> m[x]]
GetOr(m, k, d) == IF k \in DOMAIN m THEN m[k] ELSE d

\* What a Forwarder call on behalf of a datagram works on:
\*   mtu    src_mtu of the source host, or local_mtu
\*   macs   src_hardware_addr
\*   ids    ipv4_identification_map, by source host
\*   out    frames put on the wire
\*   halt   "panic": the thread panicked; "loop": the call never returns
Sender(mtu, macs, ids) ==
    [mtu |-> mtu, macs |-> macs, ids |-> ids, out |-> << >>, halt |-> "run"]

\* Forwarder::increase_ipv4_identification: checked_add(1).unwrap_or(0)
increase_ipv4_identification(U, ip) ==
    [U EXCEPT !.ids = Put(@, ip, IF GetOr(@, ip, 0) + 1 <= U16_MAX
                                 THEN GetOr(@, ip, 0) + 1 ELSE 0)]

\* the IPv4 frame send_ethernet builds: at is the offset of its payload
\* in the datagram, off its fragment offset field, mf its MF flag
Ipv4Frame(U, kind, ip, at, off, len, mf) ==
    [kind |-> kind, mac |-> GetOr(U.macs, ip, HARDWARE_ADDR_UNSPECIFIED),
     ip |-> ip, id |-> GetOr(U.ids, ip, 0), at |-> at, off |-> off,
     len |-> len, mf |-> mf]

\* Forwarder::send_ipv4_with_fragment
send_ipv4_with_fragment(U, ip, at, off, len) ==
    [U EXCEPT !.out = Append(@, Ipv4Frame(U, "UDP", ip, at, off, len, TRUE))]
\* Forwarder::send_ipv4_with_last_fragment
send_ipv4_with_last_fragment(U, ip, at, off, len) ==
    increase_ipv4_identification(
        [U EXCEPT !.out = Append(@, Ipv4Frame(U, "UDP", ip, at, off, len, FALSE))],
        ip)
\* Forwarder::send_udp_raw and send_ipv4_with_transport
send_udp_raw(U, ip, size) ==
    increase_ipv4_identification(
        [U EXCEPT !.out = Append(@, Ipv4Frame(U, "UDP", ip, 0, 0, size, FALSE))],
        ip)

\* Forwarder::send_udp, the loop from offset n on.  length - 8 overflows
\* when length is 0: a debug build panics there, a release build at the
\* slice buffer[n..n + length].  The fragment offset n / 8 of a datagram
\* a UDP socket delivers fits the u16 it is cast to.
RECURSIVE SendUdpLoop(_, _, _, _, _)
SendUdpLoop(U, ip, size, mss, n) ==
    IF ~(n < size) THEN U
    ELSE
      LET length0 == IF size - n < mss THEN size - n ELSE mss
          remain0 == size - n - length0
          length1 == IF remain0 > 0 THEN (length0 \div 8) * 8 ELSE length0
          remain  == IF remain0 > 0 THEN size - n - length1 ELSE remain0
          short   == remain > 0 /\ remain < 8
          length  == IF short THEN length1 - 8 ELSE length1
      IN  IF short /\ length1 < 8 THEN [U EXCEPT !.halt = "panic"]
          ELSE IF remain > 0
               THEN LET U1 == send_ipv4_with_fragment(U, ip, n, n \div 8,
                                                      length)
                    IN  IF length = 0 THEN [U1 EXCEPT !.halt = "loop"]
                        ELSE SendUdpLoop(U1, ip, size, mss, n + length)
               ELSE SendUdpLoop(
                        send_ipv4_with_last_fragment(U, ip, n, n \div 8, length),
                        ip, size, mss, n + length)

\* Forwarder::send_udp for a datagram of len payload bytes to the source
\* host ip
send_udp(U, ip, len) ==
    LET size == UDP_LEN + len
        mss  == U.mtu - IPV4_LEN
    IN  IF size <= mss THEN send_udp_raw(U, ip, size)
        ELSE SendUdpLoop(U, ip, size, mss, 0)

\* a Forwarder whose MTU for the source host is mtu and whose
\* identification counter for it stands at id, and a payload of len bytes
InitUdp ==
    \E mtu \in UdpMtuValues, len \in UdpLens, id \in {0, U16_MAX} :
      InitWith([f |-> "datagram", mtu |-> mtu, len |-> len, id |-> id])
SendUdp ==
    /\ call.f = "datagram"
    /\ LET U == send_udp(Sender(call.mtu, NoMap, Put(NoMap, "h1", call.id)),
                         "h1", call.len)
       IN  Calls([f |-> "sent", mtu |-> call.mtu, len |-> call.len,
                  id |-> call.id, out |-> U.out, halt |-> U.halt,
                  next |-> U.ids["h1"]], "SendUdp")
SpecFrag == InitUdp /\ [][SendUdp]_vars

\* ---------------------------------------------------- Redirector, UDP
\* const MAX_UDP_PORT, scaled
MAX_UDP_PORT == 2
\* the sockets the source hosts send datagrams from: one more than the
\* port pool holds, on two hosts
Sources ==
    {[ip |-> "h1", port |-> 1], [ip |-> "h1", port |-> 2],
     [ip |-> "h2", port |-> 1]}
\* one socket on each host
HostSources == {src \in Sources : src.port = 1}
\* the local ports a bind may get from the system
LocalPorts == 1 .. MAX_UDP_PORT + 1
\* payload lengths of the datagrams the SOCKS side returns: one that fits
\* a frame and one that is fragmented
DatagramLens == {1, LOCAL_MTU}

\* lru::LruCache<u16, SocketAddrV4>, least recently used first
LruHas(lru, port) == \E i \in DOMAIN lru : lru[i].port = port
LruWithout(lru, port) ==
    LET Other(e) == e.port # port IN SelectSeq(lru, Other)
\* LruCache::get: the entry becomes the most recently used
LruGet(lru, port) ==
    LET Same(e) == e.port = port
    IN  LruWithout(lru, port) \o SelectSeq(lru, Same)
\* LruCache::put
LruPut(lru, port, src) ==
    LET e == [port |-> port, src |-> src]
    IN  IF LruHas(lru, port) THEN Append(LruWithout(lru, port), e)
        ELSE IF Len(lru) >= MAX_UDP_PORT THEN Append(Tail(lru), e)
        ELSE Append(lru, e)

\* the context a handler of a datagram or an ARP request starts from
StartUdp ==
    [datagrams |-> datagrams, datagram_map |-> datagram_map,
     udp_lru |-> udp_lru, is_set |-> is_tx_src_hardware_addr_set,
     U |-> Sender(Mtu(src_mtu), src_hardware_addr, ipv4_identification_map),
     port |-> {}, evicted |-> {}, err |-> FALSE, locked |-> FALSE,
     awaited |-> {}]

\* the state it leaves
FinishUdp(D, name, b, a) ==
    /\ datagrams' = D.datagrams
    /\ datagram_map' = D.datagram_map
    /\ udp_lru' = D.udp_lru
    /\ src_hardware_addr' = D.U.macs
    /\ is_tx_src_hardware_addr_set' = D.is_set
    /\ ipv4_identification_map' = D.U.ids
    /\ bound' = b
    /\ asked' = a
    /\ wire' = D.U.out
    /\ halt' = D.U.halt
    /\ err' = D.err
    /\ awaited' = D.awaited
    /\ op' = name
    /\ sacks' = << >> /\ cooling' = FALSE /\ stamp' = {} /\ sample' = NoSample
    /\ UNCHANGED <<tx_states, src_mtu, rx_states, streams, wait, build, peer,
                   call>>

\* handle_arp and handle_ipv4: the first frame of a source host sets the
\* Forwarder's hardware address
SetHardwareAddr(D, ip) ==
    IF ~D.is_set
    THEN Unlock([Lock(D) EXCEPT !.U.macs = Put(@, ip, MacOf(ip)),
                                !.is_set = TRUE])
    ELSE D

\* Forwarder::send_arp_reply
send_arp_reply(U, ip) ==
    [U EXCEPT !.out = Append(@, [Ipv4Frame(U, "ARP", ip, 0, 0, 0, FALSE)
                                    EXCEPT !.id = 0])]
\* Redirector::handle_arp for a request that asks for the gateway
handle_arp(D, ip) ==
    LET D1 == SetHardwareAddr(D, ip)
    IN  Unlock([Lock(D1) EXCEPT !.U = send_arp_reply(@, ip)])

\* Redirector::bind_local_udp_port; DatagramWorker::bind returns the
\* worker and the port fresh, or an error
bind_local_udp_port(D, src, bind_ok, fresh) ==
    IF src \in DOMAIN D.datagram_map
    THEN [D EXCEPT !.udp_lru = LruGet(@, D.datagram_map[src]),
                   !.port = {D.datagram_map[src]}]
    ELSE
      LET binds == Len(D.udp_lru) < MAX_UDP_PORT
          D1    == IF binds THEN Await(D, "bind") ELSE D
      IN  IF binds /\ bind_ok
          THEN [D1 EXCEPT !.datagrams = Put(@, fresh, [src |-> src]),
                          !.datagram_map = Put(@, src, fresh),
                          !.udp_lru = LruPut(@, fresh, src),
                          !.port = {fresh}]
          ELSE IF D1.udp_lru = << >> THEN [D1 EXCEPT !.err = TRUE]
          ELSE
            LET pair == Head(D1.udp_lru)
            IN  [D1 EXCEPT !.udp_lru = LruPut(Tail(@), pair.port, src),
                           !.datagram_map =
                               Put(Remove(@, pair.src), src, pair.port),
                           !.port = {pair.port},
                           !.evicted = {pair.src}]

\* Redirector::handle_udp; send_to returns Ok or an error
handle_udp(D, src, bind_ok, fresh, send_ok) ==
    LET D1 == bind_local_udp_port(D, src, bind_ok, fresh)
    IN  IF D1.err THEN D1
        ELSE IF UnwrapOr(D1.port, 0) \notin DOMAIN D1.datagrams
             THEN [D1 EXCEPT !.err = TRUE, !.U.halt = "panic"]
             ELSE [Await(D1, "send_to") EXCEPT !.err = ~send_ok]

\* unbind_local_udp_port leaving the port in the LRU
UnbindKeepsLru(D, src) ==
    IF src \in DOMAIN D.datagram_map
    THEN [D EXCEPT !.datagrams = Remove(@, D.datagram_map[src]),
                   !.datagram_map = Remove(@, src)]
    ELSE D
\* Redirector::unbind_local_udp_port
unbind_local_udp_port(D, src) ==
    IF src \in DOMAIN D.datagram_map
    THEN [D EXCEPT !.datagrams = Remove(@, D.datagram_map[src]),
                   !.udp_lru = LruWithout(@, D.datagram_map[src]),
                   !.datagram_map = Remove(@, src)]
    ELSE D

\* what handle_udp did: the source, the port it got, the source evicted
\* for it, the source the worker behind the port was bound for, and
\* whether it found the port pool full
Bound(D, src) ==
    [src |-> {src}, port |-> D.port, evicted |-> D.evicted,
     worker |-> {D.datagrams[p].src : p \in D.port \cap DOMAIN D.datagrams},
     full |-> Len(udp_lru) >= MAX_UDP_PORT]

\* an ARP request of a source host for the gateway
HandleArp ==
    \E ip \in Hosts :
      /\ halt = "run"
      /\ FinishUdp(handle_arp(StartUdp, ip), "HandleArp", NoBound,
                   asked \cup {ip})

\* a datagram of a source host
HandleUdp(srcs) ==
    \E src \in srcs, bind_ok \in BOOLEAN, send_ok \in BOOLEAN,
       fresh \in LocalPorts \ DOMAIN datagrams :
      /\ halt = "run"
      /\ LET D == handle_udp(SetHardwareAddr(StartUdp, src.ip), src, bind_ok,
                             fresh, send_ok)
         IN  FinishUdp(D, "HandleUdp", Bound(D, src), asked)

\* an ICMP message of a source host: the port of one of its datagrams is
\* unreachable
HandleIcmpv4Unreachable(srcs) ==
    \E src \in srcs :
      /\ halt = "run"
      /\ FinishUdp(unbind_local_udp_port(SetHardwareAddr(StartUdp, src.ip),
                                         src),
                   "HandleIcmpv4Unreachable", NoBound, asked)

\* ForwardDatagram::forward: a worker's reader got a datagram of len bytes
\* from the SOCKS side and forwards it to the source it was bound for
DatagramForward(lens) ==
    \E port \in DOMAIN datagrams, len \in lens :
      /\ halt = "run"
      /\ GetOr(ipv4_identification_map, datagrams[port].src.ip, 0)
           < MaxDatagrams
      /\ LET D == StartUdp
         IN  FinishUdp([D EXCEPT !.U = send_udp(@, datagrams[port].src.ip, len)],
                       "DatagramForward",
                       [NoBound EXCEPT !.port = {port},
                                       !.worker = {datagrams[port].src}],
                       asked)

\* datagrams from more sockets than the port pool holds
SpecUdp ==
    Init /\ [][\/ HandleUdp(Sources)
               \/ HandleIcmpv4Unreachable(Sources)
               \/ DatagramForward({1})]_vars

\* a flow whose handlers suspend, beside the datagrams of one socket
Awaiting ==
    Scenario({{}}, {}, {0}, {U16_MAX}, 0, 1, FALSE, 1, 1, {0}, 0)
SpecAwait ==
    Init /\ [][\/ HandleTcpSyn(Awaiting)
               \/ HandleTcpAckData(Awaiting)
               \/ StreamSendReturns(Awaiting)
               \/ WorkerForward(Awaiting)
               \/ WorkerClose(Awaiting)
               \/ WorkerTick(Awaiting)
               \/ HandleUdp({[ip |-> "h1", port |-> 1]})]_vars

\* ARP requests and datagrams of two hosts
SpecArp ==
    Init /\ [][\/ HandleArp
               \/ HandleUdp(HostSources)
               \/ DatagramForward(DatagramLens)]_vars

\* ================================================================ claims
\* the frames of the last step
Frames == {wire[i] : i \in DOMAIN wire}
IsFin(f) == f.kind \in {"FIN", "ACKFIN"}
IsPayload(f) == f.kind \in {"ACK", "ACKFIN"} /\ f.len > 0
TxState == tx_states[FlowKey]
RxState == rx_states[FlowKey]
Stream == streams[FlowKey]

\* C1: when a payload longer than one MSS is emitted together with the
\* flow's FIN, only the last segment of the emission carries the FIN flag:
\* no payload segment carrying FIN is followed, in the same emission, by
\* the payload segment that continues it.
C1_OnlyLastSegmentCarriesFin ==
    \A i \in 1 .. Len(wire) - 1 :
        IsPayload(wire[i]) /\ IsPayload(wire[i + 1])
        /\ wire[i + 1].seq = WrapAdd(wire[i].seq, wire[i].len)
        => wire[i].kind = "ACK"

\* C2: the flow's FIN (pure FIN or ACK/FIN) is emitted only once every
\* byte accepted by forward() has left the queue, whatever the window the
\* source host advertises.
C2_FinOnlyWhenQueueEmpty ==
    \A f \in Frames : IsFin(f) => f.queue = 0

\* C3: a flow whose peer has half-closed (write half shut down) while the
\* SOCKS side is still open (read half open, no FIN of ours sent) is not
\* destroyed by a pure ACK.
C3_HalfClosedSurvivesPureAck ==
    [][(op' = "HandleTcpAckPure" /\ Has(streams)
        /\ Stream.is_write_closed /\ ~Stream.is_read_closed)
       => Has(streams)']_vars

\* C4: every payload segment carries at most MSS bytes, MSS being the MTU
\* in force for the source host when the segment is emitted (the recorded
\* one, or local_mtu) minus the 40 header bytes.
C4_SegmentAtMostMss ==
    \A f \in Frames : IsPayload(f) => f.len <= f.mtu - HEADER_LEN

\* C5: between Forwarder operations tx.sequence equals the send cache's
\* base plus its length plus one ghost byte per outstanding SYN or FIN;
\* stated here for the flows that have no SYN and no FIN outstanding, where
\* it reads: tx.sequence is the end of the send cache.
C5_SequenceIsCacheEnd ==
    Has(tx_states) /\ ~TxState.cache_syn /\ ~TxState.cache_fin
    => TxState.sequence = QueueRecvNext(TxState.cache)

\* C6 (as stated): when any payload segment is transmitted, first
\* transmission or retransmission, the send cache is no longer than the
\* send window the peer advertised last.
C6_CacheWithinWindowAtTransmission ==
    \A f \in Frames : IsPayload(f) => f.cache_len <= f.send_window

\* C6 (amended): when send_tcp_ack transmits a new payload segment, the
\* send cache, the new bytes included, is no longer than the send window
\* the peer advertised last.
C6_CacheWithinWindowAtFirstTransmission ==
    \A f \in Frames : IsPayload(f) /\ f.new => f.cache_len <= f.send_window

\* C6 witness: send_tcp_ack sent new bytes up to the window's edge and had
\* to leave the rest in the queue
C6_WindowFilled ==
    \E f \in Frames : /\ IsPayload(f) /\ f.new
                      /\ f.cache_len = f.send_window /\ f.queue > 0

\* C7 (as stated): send_tcp_ack transmits no new payload segment shorter
\* than MSS when the send cache held unacknowledged bytes at the time of
\* the call, the last segment of the emission included.
C7_NoShortSegmentBehindCache ==
    \A f \in Frames :
        IsPayload(f) /\ f.new /\ f.cache0 > 0 => f.len >= f.mtu - HEADER_LEN

\* the new payload bytes of the last step
RECURSIVE NewBytes(_)
NewBytes(frames) ==
    IF frames = << >> THEN 0
    ELSE (IF IsPayload(Head(frames)) /\ Head(frames).new
          THEN Head(frames).len ELSE 0) + NewBytes(Tail(frames))

\* C7 (amended): when the send cache held unacknowledged bytes at the time
\* of the call, send_tcp_ack transmits new payload only if the amount it
\* drains is at least MSS; the last segment of the emission may be shorter.
C7_NoShortDrainBehindCache ==
    \A f \in Frames :
        IsPayload(f) /\ f.new /\ f.cache0 > 0
        => NewBytes(wire) >= f.mtu - HEADER_LEN

\* C7 witness: behind a non-empty cache send_tcp_ack drained more than one
\* MSS and ended the emission with a short segment
C7_ShortLastSegment ==
    \E f \in Frames : /\ IsPayload(f) /\ f.new /\ f.cache0 > 0
                      /\ f.len < f.mtu - HEADER_LEN

\* the threshold of receive-side SWS avoidance
SwsThreshold == Min(RECV_WINDOW \div 2, LOCAL_MTU)

C9_FinAdmittedOnceDelivered ==
    /\ Has(streams) /\ wait = {} /\ ~Stream.is_read_closed
    /\ RxState.fin_sequence # {} /\ RxState.cache.filled = {}
    /\ peer.fin = {RxState.cache.sequence}
    => Stream.is_write_closed

\* C10: between two handled frames the Redirector's stream table, its
\* RxState table and the Forwarder's TxState table hold the flow key all
\* three or none of them.
C10_TablesHoldTheSameKeys ==
    /\ Has(streams) <=> Has(rx_states)
    /\ Has(rx_states) <=> Has(tx_states)

\* the sequence numbers of the n bytes from seq on
SeqBytes(seq, n) == {SeqAdd(seq, i) : i \in 0 .. n - 1}
\* the bytes of the payload segments of the last step that are not new
RetransmittedBytes ==
    UNION {SeqBytes(f.seq, f.len) : f \in {g \in Frames : IsPayload(g) /\ ~g.new}}
\* the bytes the SACK ranges of the last selective retransmission cover
SackedBytes ==
    UNION {SeqBytes(sacks[i][1], SeqSub(sacks[i][2], sacks[i][1])) :
             i \in DOMAIN sacks}
\* the bytes the send cache held when the last step began to retransmit
CachedBytes ==
    SeqBytes(TxState.cache.sequence, TxState.cache.len - NewBytes(wire))

\* C11: the selective retransmission a duplicate ACK with SACK ranges S
\* triggers emits exactly the bytes of [cache.base, cache.recv_next) that
\* lie in no range of S.
C11_SelectiveRetransmitsUnsacked ==
    sacks # << >> /\ Has(tx_states)
    => RetransmittedBytes = CachedBytes \ SackedBytes

\* the pure ACK handled by the step repeats the acknowledgement number of
\* the pure ACK before it and is at least the n-th such duplicate in a row
IsDuplicate(n) ==
    /\ op' = "HandleTcpAckPure"
    /\ Has(rx_states) /\ Has(rx_states)' /\ Has(tx_states)'
    /\ RxState'.last_acknowledgement = RxState.last_acknowledgement
    /\ RxState.duplicate + 1 >= n

\* C12: the third duplicate pure ACK in a row, carrying a non-zero window
\* on a flow that has not fast-retransmitted before, makes the Forwarder
\* retransmit the whole cache, or with SACK ranges its un-SACKed bytes; a
\* pure ACK that is not at least the third duplicate retransmits nothing.
C12_ThirdDuplicateRetransmits ==
    [][/\ IsDuplicate(DUPLICATES_THRESHOLD)
          /\ TxState'.send_window > 0 /\ ~RxState.last_retrans
          => RetransmittedBytes' = (CachedBytes \ SackedBytes)'
       /\ op' = "HandleTcpAckPure" /\ ~IsDuplicate(DUPLICATES_THRESHOLD)
          => RetransmittedBytes' = {}]_vars

C14_SampleOnlyOfBytesSentOnce == ~sample.resent

\* C15: when tick finds a timed-out prefix in the send cache, the RTO the
\* prefix is re-timestamped with is the RTO of the flow after the tick.
C15_TimedOutPrefixStampedWithRto ==
    op = "WorkerTick" /\ Has(tx_states) /\ RetransmittedBytes # {}
        => stamp = {TxState.rto}

\* C16: the RTO of a flow is INITIAL_RTO at creation and stays within
\* [MIN_RTO, MAX_RTO] through every RTT sample and every doubling.
C16_RtoWithinBounds ==
    Has(tx_states) =>
        /\ MIN_RTO <= TxState.rto /\ TxState.rto <= MAX_RTO
        /\ op = "HandleTcpSyn" => TxState.rto = INITIAL_RTO
\* C16 witness: a sample after the first, whose 4 * rttvar saturated u64,
\* was clamped to MAX_RTO
C16_SaturatedSampleClamped ==
    /\ Has(tx_states) /\ sample.source = "cache"
    /\ UnwrapOr(TxState.rttvar, 0) * 4 > U64_MAX /\ TxState.rto = MAX_RTO

\* C17: forward on a flow whose FIN is queued or outstanding returns an
\* error, emits no frame and leaves the queue, the cache and the sequence
\* of the flow as they were.
C17_ForwardAfterFinFails ==
    [][op' = "ForwardPending" =>
          /\ err' /\ wire' = << >>
          /\ TxState'.queue = TxState.queue
          /\ TxState'.cache = TxState.cache
          /\ TxState'.sequence = TxState.sequence]_vars
\* C17 witness: forward was called with bytes cached and the FIN
\* outstanding
C17_ForwardWithFinOutstanding ==
    /\ op = "ForwardPending" /\ err
    /\ TxState.cache_fin /\ TxState.cache.len > 0

\* C18: when the connect of the StreamWorker fails for an admitted SYN, an
\* ACK+RST is emitted and no TxState, RxState or stream remains for the
\* flow.
C18_FailedConnectResetsAndCleansUp ==
    op = "HandleTcpSyn" /\ ~Has(streams) =>
        /\ \E f \in Frames : f.kind = "ACKRST"
        /\ ~Has(tx_states) /\ ~Has(rx_states)

\* the pure ACKs among the frames of the last step
PureAcks == {i \in DOMAIN wire : wire[i].kind = "ACK" /\ wire[i].len = 0}
\* C19: when stream.send fails for a contiguous prefix, an ACK+RST is
\* emitted and the flow leaves the three tables; when it succeeds,
\* recv_next and tx.acknowledgement advance by the length of the prefix and
\* one ACK is emitted (no FIN in the segment, none recorded before it).
C19_DeliveryAdvancesOrResets ==
    [][\A w \in wait : op' = "StreamSendReturns" =>
          IF err'
          THEN /\ \E f \in Frames' : f.kind = "ACKRST"
               /\ ~Has(tx_states)' /\ ~Has(rx_states)' /\ ~Has(streams)'
          ELSE /\ ~w.tcp.is_fin /\ Has(rx_states) /\ Has(rx_states)'
               /\ RxState.fin_sequence = {}
               =>
               /\ RxState'.recv_next = SeqAdd(RxState.recv_next, w.p)
               /\ TxState'.acknowledgement = SeqAdd(TxState.acknowledgement, w.p)
               /\ Cardinality(PureAcks') = 1]_vars

\* C20: when a segment's payload does not fit the receive window, so that
\* handle_tcp_ack returns the error of append_cache, an RST is sent and the
\* TxState, the RxState and the stream of the flow are removed.
C20_WindowOverflowTearsDown ==
    op = "HandleTcpAckData" /\ err =>
        /\ \E f \in Frames : f.kind \in {"RST", "ACKRST"}
        /\ ~Has(tx_states) /\ ~Has(rx_states) /\ ~Has(streams)
\* C27: add_sequence, add_acknowledgement and add_recv_next compute
\* (x + n) mod 2^32 for every 32-bit x and n, as the wrap at flow creation
\* does for n = 1.
C27_IncrementIsModular ==
    call.f = "add" =>
      /\ call.out = (call.x + call.n) % (U32_MAX + 1)
      /\ call.n = 1 => call.out = WrapInc(call.x)

\* C28: the code's distance from a number back to the number it was
\* incremented from by n is n, for every 32-bit number and every n below
\* 2^32.
C28_DistanceReconstructsIncrement ==
    call.f = "sub" => call.out = call.n

\* the residue the claim names for main = [0, lm) and sub = [oc, oc + ls)
\* relative to a
DisjointExpected(a, lm, oc, ls) ==
    LET main == RangeOf(a, 0, lm)
        sub  == RangeOf(a, oc, ls)
    IN  IF oc <= 0 /\ oc + ls >= lm THEN << >>
        ELSE IF oc + ls <= 0 \/ oc >= lm THEN <<main>>
        ELSE IF oc > 0 /\ oc + ls < lm
             THEN << <<main[1], sub[1]>>, <<sub[2], main[2]>> >>
        ELSE IF oc > 0 THEN << <<main[1], sub[1]>> >>
        ELSE << <<sub[2], main[2]>> >>

\* C29: disjoint_u32_range returns the two residues when sub is strictly
\* inside main, the left residue when sub overlaps main on the right, the
\* right residue when it overlaps on the left, main when sub lies beside
\* main, and the empty list when sub covers main, c = a included.
C29_DisjointResidue ==
    call.f = "disjoint" =>
      call.out = DisjointExpected(call.a, call.lm, call.oc, call.ls)

\* the SYN-ACKs the last handler put on the wire
SynAcks == {wire[i] : i \in {j \in DOMAIN wire : wire[j].kind = "SYNACK"}}

\* C24: the SYN-ACK that answers an admitted SYN acknowledges the SYN's
\* sequence number plus one modulo 2^32, carries the window scale
\* min(w, MAX_RECV_WSCALE) exactly when the SYN carried a window scale w,
\* carries SACK-permitted exactly when the SYN did, and advertises the
\* local MTU less the IPv4 and TCP headers as MSS.
C24_SynAckMirrorsSyn ==
    /\ op = "HandleTcpSyn" =>
         \A f \in SynAcks :
           /\ f.ack = (peer.irs + 1) % (U32_MAX + 1)
           /\ f.syn = {[mss |-> LOCAL_MTU - HEADER_LEN,
                        wscale |-> {IF w < MAX_RECV_WSCALE THEN w
                                    ELSE MAX_RECV_WSCALE : w \in peer.wscale},
                        sack_perm |-> peer.sack_perm]}
    /\ call.f = "mss" => call.out = call.local_mtu - HEADER_LEN
\* a SYN with the last sequence number, a window scale above the maximum
\* and no SACK-permitted option was answered, and the MSS of the largest
\* local MTU was computed
C24_LargeScaleSynAnswered ==
    /\ op = "HandleTcpSyn" /\ SynAcks # {}
    /\ peer.irs = U32_MAX /\ peer.wscale = {MAX_RECV_WSCALE + 1}
    /\ ~peer.sack_perm
    /\ call.f = "mss" /\ call.local_mtu = HEADER_LEN + U16_MAX

\* the fragments of the datagram send_udp was last called with
Fragments == call.out
FragmentsCover(size) ==
    /\ Fragments # << >>
    /\ Fragments[1].at = 0
    /\ \A i \in 1 .. Len(Fragments) - 1 :
          Fragments[i + 1].at = Fragments[i].at + Fragments[i].len
    /\ Fragments[Len(Fragments)].at + Fragments[Len(Fragments)].len = size

\* C22: a datagram whose 8 + payload bytes exceed MTU - 20 leaves send_udp
\* as fragments that cover it exactly once and in order; every fragment
\* but the last is a positive multiple of 8 bytes long and at most
\* MTU - 20; the offset field is the byte offset over 8; all fragments
\* carry one identification; only the last clears MF; and the
\* identification counter is incremented once, after the last fragment.
C22_FragmentsCoverDatagram ==
    call.f = "sent" /\ UDP_LEN + call.len > call.mtu - IPV4_LEN =>
      /\ call.halt = "run"
      /\ FragmentsCover(UDP_LEN + call.len)
      /\ \A i \in DOMAIN Fragments :
            /\ Fragments[i].off * 8 = Fragments[i].at
            /\ Fragments[i].id = call.id
            /\ Fragments[i].mf = (i < Len(Fragments))
            /\ i < Len(Fragments) =>
                  /\ Fragments[i].len > 0 /\ Fragments[i].len % 8 = 0
                  /\ Fragments[i].len <= call.mtu - IPV4_LEN
      /\ call.next = (call.id + 1) % (U16_MAX + 1)

\* C21: when handle_udp evicts the least recently used source for a new
\* one, the evictee's mapping is removed, the worker bound for the evictee
\* is no longer in the worker table, and the port is the new source's.
C21_EvictionDropsWorker ==
    op = "HandleUdp" /\ bound.full =>
      \A e \in bound.evicted, s \in bound.src :
        /\ e \notin DOMAIN datagram_map
        /\ \A p \in DOMAIN datagrams : datagrams[p].src # e
        /\ s \in DOMAIN datagram_map /\ bound.port = {datagram_map[s]}

\* C23: every source host whose ARP request for the gateway was handled
\* has its own hardware address recorded, and the ARP reply and every
\* later frame for it are addressed to that hardware address.
C23_EveryHostRecorded ==
    \A ip \in asked :
      /\ ip \in DOMAIN src_hardware_addr
      /\ src_hardware_addr[ip] = MacOf(ip)
      /\ \A i \in DOMAIN wire :
            op \in {"HandleArp", "DatagramForward"} /\ wire[i].ip = ip
              => wire[i].mac = MacOf(ip)

\* C25: no Redirector handler holds the guard of the Forwarder's mutex at
\* a suspension point (StreamWorker::connect, StreamWorker::send,
\* DatagramWorker::bind, DatagramWorker::send_to), so that a worker's
\* forward, close or tick gets the guard while a handler is suspended.
C25_NoGuardAcrossAwait ==
    /\ \A a \in awaited : ~a.locked
    /\ GuardFree
\* a worker forwarded payload while handle_tcp_ack was suspended in
\* stream.send, on a Redirector that has bound a datagram port
C25_WorkerRunsWhileSuspended ==
    /\ op = "WorkerForward" /\ wait # {}
    /\ datagrams # NoMap

\* the send state of a flow after a handler: base and length of the cache,
\* queue, sequence and the outstanding SYN and FIN markers
SendState(R) ==
    IF R.has_tx
    THEN {[base |-> R.F.st.cache.sequence, len |-> R.F.st.cache.len,
           queue |-> R.F.st.queue, queue_fin |-> R.F.st.queue_fin,
           sequence |-> R.F.st.sequence, cache_syn |-> R.F.st.cache_syn,
           cache_fin |-> R.F.st.cache_fin]}
    ELSE {}
\* the frames of a handler that carry bytes never transmitted before
NewlySent(R) ==
    {i \in DOMAIN R.F.out : R.F.out[i].new /\ R.F.out[i].len > 0}
\* the context the next handler starts from, where R is what the last left
Again(R) == [R EXCEPT !.F = Ctx(R.F.st, R.F.mtu, 0, R.F.build, R.F.rem),
                      !.cool = FALSE, !.sample = NoSample]
\* handle_tcp_ack on the pure ACK (ack, window), applied times times
AckTimes(times, ack, window, b) ==
    LET tcp == [sequence |-> rx_states[FlowKey].cache.sequence,
                acknowledgement |-> ack, len |-> 0, window |-> window,
                is_fin |-> FALSE, sack |-> << >>]
        R1  == handle_tcp_ack(Start(src_mtu, 0, b), tcp, FALSE, 0, FALSE)
    IN  IF times = 1 THEN R1
        ELSE handle_tcp_ack(Again(R1), tcp, FALSE, 0, FALSE)

\* C26: a pure ACK applied to a flow twice in a row leaves the send state
\* (cache base and contents, queue, sequence, outstanding SYN and FIN) as
\* one application leaves it, and the second application transmits no new
\* bytes
C26_SameAckTwiceIsOnce ==
    Idle /\ Has(streams) =>
      \A window \in Sending.windows, ack \in AckValues(tx_states[FlowKey]),
         b \in Builds(src_mtu) :
        ~AckTimes(1, ack, window, b).F.err =>
          /\ SendState(AckTimes(2, ack, window, b))
               = SendState(AckTimes(1, ack, window, b))
          /\ NewlySent(AckTimes(2, ack, window, b)) = {}

\* the lengths stream.send may have taken in the step: the contiguous
\* prefix of the handler that resumed, or nothing
DeliveredLens ==
    {0} \cup (IF op' = "StreamSendReturns" THEN {w.p : w \in wait} ELSE {})
\* whether the source host's FIN lies d bytes past recv_next
FinLens(d) ==
    {0} \cup (IF peer'.fin = {SeqAdd(RxState.recv_next, d)} THEN {1} ELSE {})
\* recv_next after a step: one past the SYN's sequence for a flow the step
\* created, else the delivered prefix and an admitted FIN further
RecvNextStep ==
    Has(rx_states)' =>
      IF ~Has(rx_states) \/ op' = "HandleTcpSyn"
      THEN RxState'.recv_next = SeqAdd(peer'.irs, 1)
      ELSE \E d \in DeliveredLens : \E f \in FinLens(d) :
             RxState'.recv_next = SeqAdd(RxState.recv_next, d + f)
\* tx.acknowledgement of a flow is rx.recv_next of the flow
AcknowledgementIsRecvNext ==
    wait = {} /\ Has(tx_states) /\ Has(rx_states) =>
        TxState.acknowledgement = RxState.recv_next

\* C30: between two handled frames tx.acknowledgement of a flow equals
\* rx.recv_next of the flow, and recv_next changes only at flow creation
\* (to the SYN's sequence + 1), by the length of a contiguous prefix that
\* stream.send took, or by 1 for an admitted FIN.
C30_AcknowledgementMirrorsRecvNext ==
    []AcknowledgementIsRecvNext /\ [][RecvNextStep]_vars

\* the sequence number of the outstanding FIN: the one after the last
\* cached byte
FinSequence(st) == QueueRecvNext(st.cache)

\* C31: an outstanding FIN is marked acknowledged, and tx.sequence advanced
\* past it, only by an ACK whose acknowledgement number covers the FIN
\* (FIN's sequence + 1); any other ACK the peer can send leaves cache_fin
\* set and, unless it lets new bytes out, the sequence where it was.
C31_FinNeedsCoveringAck ==
    Idle /\ Has(streams) /\ TxState.cache_fin =>
      \A window \in Sending.windows, ack \in AckValues(TxState),
         b \in Builds(src_mtu) :
        /\ ack # SeqAdd(FinSequence(TxState), 1)
        /\ ~AckTimes(1, ack, window, b).F.err
        /\ AckTimes(1, ack, window, b).has_tx
        => /\ AckTimes(1, ack, window, b).F.st.cache_fin
           /\ NewlySent(AckTimes(1, ack, window, b)) = {}
                => AckTimes(1, ack, window, b).F.st.sequence = TxState.sequence

\* C32: the outbound FIN consumes exactly one sequence number: when an ACK
\* has marked the FIN acknowledged (and let no new bytes out), tx.sequence
\* is one past the FIN's sequence number, i.e. ISN + 1 + payload bytes sent
\* + 1, for a FIN piggybacked on payload as for a pure FIN.
C32_FinTakesOneSequenceNumber ==
    [][/\ Has(tx_states) /\ Has(tx_states)'
       /\ ~TxState.cache_syn /\ TxState.cache_fin /\ ~TxState'.cache_fin
       /\ op' \in {"HandleTcpAckPure", "HandleTcpAckData"}
       /\ \A f \in Frames' : ~(f.new /\ f.len > 0)
       => TxState'.sequence = SeqAdd(FinSequence(TxState), 1)]_vars

\* C33: a tick on a flow whose send cache is not empty and that retransmits
\* nothing (no cached bytes timed out, the FIN timer not expired) leaves
\* the flow's rto unchanged: the RTO is doubled only by a tick that
\* retransmits.
C33_IdleTickKeepsRto ==
    [][/\ op' = "WorkerTick" /\ ~err'
       /\ Has(tx_states) /\ Has(tx_states)'
       /\ TxState.cache.len > 0
       /\ wire' = << >>
       => TxState'.rto = TxState.rto]_vars

\* C34: the emission loops of send_tcp_ack_raw and send_udp terminate for
\* every MTU set_src_mtu can record: no operation is left in a loop that
\* emits empty segments without progress.
C34_EmissionLoopsTerminate == halt # "loop"

\* C35: the LAST_ACK decision is atomic with respect to the workers: when
\* the clean-up runs, the send cache and the queue are as empty as the
\* test found them, so no bytes that forward() accepted are discarded.
C35_LastAckIsAtomic ==
    [][\A w \in wait : w.at = "last_ack" /\ op' = "LastAckCleanUp"
          => TxState.cache.len + TxState.queue = 0]_vars

\* C36: the ACK+RST emitted when the SOCKS connect fails for an admitted
\* SYN with sequence s carries the acknowledgement number (s + 1) mod 2^32.
C36_ResetAcknowledgesSyn ==
    op = "HandleTcpSyn" =>
        \A f \in Frames : f.kind = "ACKRST" => f.ack = SeqAdd(peer.irs, 1)

\* a flow was admitted and its SYN-ACK sent, once
SynAckSentOnce ==
    /\ op = "HandleTcpSyn" /\ Has(streams)
    /\ Has(tx_states) /\ TxState.cache_syn
\* a later step emitted a SYN-ACK, or the SYN is no longer outstanding
SynAckSentAgain ==
    \/ op # "HandleTcpSyn" /\ \E f \in Frames : f.kind = "SYNACK"
    \/ ~Has(tx_states)
    \/ ~TxState.cache_syn

\* C37: while the SYN of an admitted flow remains unacknowledged, a SYN-ACK
\* is eventually emitted again, driven by the tick timer or by the peer's
\* retransmitted SYN, when the SOCKS side sends nothing and does not close.
C37_SynAckIsRetransmitted == SynAckSentOnce ~> SynAckSentAgain


\* the source host's FIN has been admitted and the flow lives on: the
\* stream's write half is shut down, which only handle_tcp_fin does, right
\* after it has counted the FIN
FinCounted ==
    /\ Has(streams) /\ Has(rx_states) /\ Has(tx_states)
    /\ Stream.is_write_closed
\* a retransmitted copy of the counted FIN has been handled and is on
\* record again
FinSeenAgain ==
    /\ FinCounted
    /\ op \in {"HandleTcpFin", "HandleTcpAckData", "StreamSendReturns"}
    /\ RxState.fin_sequence = peer.fin

\* C39: the peer's FIN advances recv_next and tx.acknowledgement at most
\* once per flow: once the FIN is counted, a retransmitted copy of the FIN
\* or a later pure ACK leaves both as they are, and a step that delivers
\* payload adds the delivered length and nothing for the FIN.
C39_FinCountsOnce ==
    [][/\ FinCounted
       /\ Has(rx_states)' /\ Has(tx_states)'
       /\ op' # "HandleTcpSyn"
       => \E d \in DeliveredLens :
            /\ RxState'.recv_next = add_recv_next(RxState, d).recv_next
            /\ TxState'.acknowledgement
                 = add_acknowledgement(TxState, d).acknowledgement]_vars


\* the bytes a flow holds for the source host, sent or queued
Held(st) == st.cache.len + st.queue
\* the send cache is within its capacity, and so is the peer's send window
CacheWithinCapacity ==
    Has(tx_states) =>
      /\ TxState.cache.len <= TxState.cache.capacity
      /\ TxState.send_window <= TxState.cache.capacity
\* a step of a flow keeps every byte the flow holds: append_cache does not
\* fail, the bytes that leave the queue are the bytes sent for the first
\* time, and a step of the worker puts them into the cache
NoByteLost ==
    Has(tx_states) /\ Has(tx_states)' /\ op' # "HandleTcpSyn" =>
      /\ ~err'
      /\ op' = "WorkerForward" =>
           /\ Held(TxState') - Held(TxState) \in 1 .. MaxFwdLen
           /\ TxState'.cache.len - TxState.cache.len = NewBytes(wire')
      /\ op' = "WorkerClose" =>
           /\ Held(TxState') = Held(TxState)
           /\ TxState'.cache.len - TxState.cache.len = NewBytes(wire')
      /\ op' = "HandleTcpAckPure" =>
           TxState.queue - TxState'.queue = NewBytes(wire')
\* the send cache is full and bytes wait in the queue
CacheFull ==
    /\ Has(tx_states)
    /\ op = "WorkerForward"
    /\ TxState.cache.len = TxState.cache.capacity
    /\ TxState.queue > 0

\* C38: for every sequence of peer-advertised windows the bytes
\* send_tcp_ack moves from the queue into the send cache never make the
\* cache exceed its capacity RECV_WINDOW << wscale, the peer's send window
\* being at most that capacity, so append_cache never fails and no byte
\* drained from the queue is lost.
C38_CacheNeverOverflows == []CacheWithinCapacity /\ [][NoByteLost]_vars


\* the source-to-port map and the port-to-source LRU hold the same pairs,
\* each port and each source once
MapIsLruInverse ==
    /\ \A src \in DOMAIN datagram_map :
         \E i \in DOMAIN udp_lru :
           udp_lru[i] = [port |-> datagram_map[src], src |-> src]
    /\ \A i \in DOMAIN udp_lru :
         /\ udp_lru[i].src \in DOMAIN datagram_map
         /\ datagram_map[udp_lru[i].src] = udp_lru[i].port
    /\ \A i, j \in DOMAIN udp_lru :
         i # j => /\ udp_lru[i].port # udp_lru[j].port
                  /\ udp_lru[i].src # udp_lru[j].src
\* a bind failed below the pool's capacity and the least recently used
\* port went to the new source
EvictedOnBindFailure ==
    /\ op = "HandleUdp"
    /\ bound.evicted # {} /\ ~bound.full
    /\ Len(udp_lru) > 0

\* C40: after any sequence of datagrams, bind failures, LRU evictions and
\* unbinds the source-to-port map and the port-to-source LRU are inverse
\* bijections, hold at most MAX_UDP_PORT entries, and every port they
\* contain has a DatagramWorker, so that handle_udp finds the worker of
\* the port it obtained.
C40_PortTablesConsistent ==
    /\ MapIsLruInverse
    /\ Len(udp_lru) <= MAX_UDP_PORT
    /\ Cardinality(DOMAIN datagram_map) <= MAX_UDP_PORT
    /\ \A i \in DOMAIN udp_lru : udp_lru[i].port \in DOMAIN datagrams
    /\ halt # "panic"
====
